---- MODULE Spec2Model ----
(***************************************************************************)
(* Model of gsr, the Golang service registry library backed by etcd3.      *)
(* The registry modelled is the stateless one (Registry with a heartbeats  *)
(* map keyed by *Endpoint, Endpoints() re-reading etcd on every call).     *)
(* Strings are sequences of one-character strings so that key building,    *)
(* prefix reads and key parsing are computed the way the code computes     *)
(* them.                                                                   *)
(***************************************************************************)
EXTENDS Naturals, Integers, Sequences, FiniteSets, TLC

\* ------------------------------------------------------------------ bounds

\* Leases the store grants in one run (every Register call grants one).
MaxLeases == 3

\* ----------------------------------------------------------------- strings

\* Byte order of the characters used by the model ('-' sorts before '/', '/'
\* before the letters).
Alphabet == <<"-", "/", "a", "b", "c", "e", "g", "i", "r", "s", "v", "w">>

Ord(c) == CHOOSE i \in 1..Len(Alphabet) : Alphabet[i] = c

\* strings.HasPrefix
HasPrefix(str, p) ==
    /\ Len(p) <= Len(str)
    /\ SubSeq(str, 1, Len(p)) = p

\* Mutant of DropFirst: one character too many is cut off.
DropFirstOneMore(str, n) == SubSeq(str, n + 2, Len(str))

\* str[n:] of Go, n counted from 0
DropFirst(str, n) == SubSeq(str, n + 1, Len(str))

\* Byte-wise lexicographic order on strings, the order of etcd's SortByKey.
RECURSIVE StrLess(_, _)
StrLess(x, y) ==
    IF x = <<>> THEN y # <<>>
    ELSE IF y = <<>> THEN FALSE
    ELSE IF Head(x) = Head(y) THEN StrLess(Tail(x), Tail(y))
    ELSE Ord(Head(x)) < Ord(Head(y))

\* strings.Split(str, "/"): the segments between the separators, n+1 segments
\* for n separators.
RECURSIVE Split(_)
Split(str) ==
    IF \A i \in 1..Len(str) : str[i] # "/" THEN <<str>>
    ELSE LET i == CHOOSE j \in 1..Len(str) :
                      /\ str[j] = "/"
                      /\ \A k \in 1..(j - 1) : str[k] # "/"
         IN  <<SubSeq(str, 1, i - 1)>> \o Split(DropFirst(str, i))

\* Mutant of SortAscend: the keys come in descending order.
RECURSIVE SortDescend(_)
SortDescend(S) ==
    IF S = {} THEN <<>>
    ELSE LET m == CHOOSE x \in S : \A y \in S \ {x} : StrLess(y, x)
         IN  <<m>> \o SortDescend(S \ {m})

\* The elements of a finite set of strings as a sequence in ascending order.
RECURSIVE SortAscend(_)
SortAscend(S) ==
    IF S = {} THEN <<>>
    ELSE LET m == CHOOSE x \in S : \A y \in S \ {x} : StrLess(x, y)
         IN  <<m>> \o SortAscend(S \ {m})

\* ----------------------------------------------------------- configuration

\* Config.EtcdKeyPrefix, the same for every handle of one registry: "gsr/"
EtcdKeyPrefix == <<"g", "s", "r", "/">>

\* --------------------------------------------------------------- key layout

\* Registry.servicesKey, for the configured prefix
servicesKeyWith(prefix) ==
    prefix \o <<"s", "e", "r", "v", "i", "c", "e", "s", "/">>

\* Registry.serviceKey
serviceKeyWith(prefix, service) == servicesKeyWith(prefix) \o service

\* Registry.endpointKey
endpointKeyWith(prefix, service, endpoint) ==
    serviceKeyWith(prefix, service) \o <<"/">> \o endpoint

\* The same on a registry configured with the default prefix.
servicesKey == servicesKeyWith(EtcdKeyPrefix)

serviceKey(service) == serviceKeyWith(EtcdKeyPrefix, service)

endpointKey(service, endpoint) ==
    endpointKeyWith(EtcdKeyPrefix, service, endpoint)

\* ------------------------------------------------------- the model's inputs

\* The registry handles (one per process).
Handles == {"H1", "H2"}

\* The *Endpoint objects a process passes to Register and Unregister. E1 and
\* E2 are two distinct objects with equal fields; the service of E3 has the
\* service of E1 as a proper prefix of its name.
Descs == {"E1", "E2", "E3", "E4"}

SvcW  == <<"w">>
SvcWB == <<"w", "b">>
AddrA == <<"a">>
AddrB == <<"b">>

\* ep.Service.Name
ServiceName(d) == IF d = "E3" THEN SvcWB ELSE SvcW

\* ep.Address
Address(d) == IF d = "E4" THEN AddrB ELSE AddrA

\* The descriptors each process holds.
DescsOf(h) == IF h = "H1" THEN {"E1", "E2", "E3"} ELSE {"E1", "E4"}

NoDesc == "none"

Pair(d) == <<ServiceName(d), Address(d)>>

Pairs == {Pair(d) : d \in Descs}

Services == {ServiceName(d) : d \in Descs}

LeaseIds == 1..MaxLeases

NoLease == 0

\* ------------------------------------------------------------------- state

VARIABLES
    store,       \* etcd keyspace: key |-> [lease, value] for the keys present
    leases,      \* etcd leases: id |-> [st, owner, ep]
    hstate,      \* handle |-> "up" | "dead" (the owning process crashed)
    heartbeats,  \* Registry.heartbeats: handle |-> (descriptor |-> lease of the keepalive channel)
    epLease,     \* Endpoint.lease: handle |-> (descriptor |-> lease id)
    pc,          \* handle |-> position of the public call in flight
    arg,         \* handle |-> descriptor of the call in flight
    last,        \* history: the public call that returned last, [op, ret]
    orphaned,    \* history: handle |-> the pairs it held registered when it crashed
    anyEnded,    \* history: some lease has expired or been revoked
    atCall,      \* history: handle |-> the machine of the descriptor when the call in flight started
    query,       \* the call, or the process, under study: [fn, ...]
    answer,      \* what that call returned
    connPc,      \* New/connect: "idle", "loop", "ret" (loop left), "done"
    budget,      \* ticks the backoff ticker delivers within the connect timeout
    ticks,       \* ticks delivered so far
    attempts,    \* connect: attempts
    fatal,       \* connect: fatal
    err,         \* connect: err
    client,      \* connect: client
    newRet       \* what New returned

vars == <<store, leases, hstate, heartbeats, epLease, pc, arg, last,
          orphaned, anyEnded, atCall, query, answer,
          connPc, budget, ticks, attempts, fatal, err, client, newRet>>

\* The variables of the registry and of the store behind it.
registryVars == <<store, leases, hstate, heartbeats, epLease, pc, arg, last,
                  orphaned, anyEnded, atCall>>

\* The variables of the read-only calls.
readVars == <<query, answer>>

\* The variables of New and connect.
connVars == <<connPc, budget, ticks, attempts, fatal, err, client, newRet>>

\* The variables the operations of the registry never touch.
nonRegistry == <<readVars, connVars>>

\* Most ticks the backoff ticker delivers before the connect timeout is over.
MaxTicks == 3

\* error(nil)
NoErr == [type |-> "nil"]

\* No *etcd.Client / a connected one.
NilClient == "nil"

Connected == "client"

\* New has not returned.
NoReturn == [handle |-> "none"]

\* New was called on every handle before the registry is used: the state of
\* New and connect at rest.
ConnIdle ==
    /\ connPc = "done"
    /\ budget = 1
    /\ ticks = 1
    /\ attempts = 0
    /\ fatal = FALSE
    /\ err = NoErr
    /\ client = Connected
    /\ newRet = [handle |-> "registry", client |-> Connected, err |-> NoErr]

\* No read-only call is under study.
NoQuery == [fn |-> "none"]

NoAnswer == <<>>

\* A function with one more (or one changed) argument.
Put(f, x, v) == [y \in DOMAIN f \cup {x} |-> IF y = x THEN v ELSE f[y]]

\* A function with one argument less.
Drop(f, x) == [y \in DOMAIN f \ {x} |-> f[y]]

\* The record of a public call that has returned: the operation and its outcome.
Returned(op, r) == [op |-> op, ret |-> r]

\* -------------------------------------------------------------- etcd store

\* The lease still exists in the store (it neither expired nor was revoked).
LeaseLive(ls, l) == l \in LeaseIds /\ ls[l].st \in {"granted", "kept"}

\* Lease ids are never reused: Grant hands out the next unused one.
FreeLeases == {l \in LeaseIds : leases[l].st = "free"}

NextLease == CHOOSE l \in FreeLeases : \A m \in FreeLeases : l <= m

\* Mutant of VersionIsZero: the compare is inverted.
VersionIsNotZero(kv, key) == key \in DOMAIN kv

\* etcd.Compare(etcd.Version(ekey), "=", 0): the key does not exist.
VersionIsZero(kv, key) == key \notin DOMAIN kv

\* Mutant of OpPut: the put is lost.
OpPutDropped(kv, key, lease) == kv

\* Mutant of OpPut: the key is written with a value.
OpPutWithValue(kv, key, lease) ==
    Put(kv, key, [lease |-> lease, value |-> <<"a">>])

\* etcd.OpPut(ekey, "", etcd.WithLease(lease))
OpPut(kv, key, lease) == Put(kv, key, [lease |-> lease, value |-> <<>>])

\* Mutant of DetachLease: the end of a lease leaves its keys in the store.
DetachNothing(kv, l) == kv

\* The end of a lease (expiry or revoke) deletes every key attached to it.
DetachLease(kv, l) == [k \in {x \in DOMAIN kv : kv[x].lease # l} |-> kv[k]]

\* KV.Get(skey, WithPrefix(), WithSort(SortByKey, SortAscend)): resp.Kvs
RangeGet(kv, skey) == SortAscend({k \in DOMAIN kv : HasPrefix(k, skey)})

\* ------------------------------------------------------------ the registry

\* Mutant of EndpointsOf: the error of the range read is ignored.
EndpointsOfIgnoringError(kv, service, readOk) ==
    LET skey == serviceKey(service)
        kvs  == RangeGet(kv, skey)
    IN  [x \in 1..Len(kvs) |->
            LET parts == Split(DropFirst(kvs[x], Len(skey)))
            IN  <<parts[1], parts[2]>>]

\* Registry.Endpoints: the descriptors <<Service.Name, Address>> parsed from
\* the keys read under serviceKey(service); an empty list on a read error.
EndpointsOf(kv, service, readOk) ==
    IF ~readOk THEN <<>>
    ELSE LET skey == serviceKey(service)
             kvs  == RangeGet(kv, skey)
             lenServicesKey == Len(skey)
         IN  [x \in 1..Len(kvs) |->
                 LET parts == Split(DropFirst(kvs[x], lenServicesKey))
                 IN  <<parts[1], parts[2]>>]

Endpoints(service, readOk) == EndpointsOf(store, service, readOk)

\* util.go contains: some descriptor of the list has the address.
contains(search, in) == \E i \in 1..Len(in) : in[i][2] = search

\* The machine of descriptor d on handle h: "expired" when the handle has the
\* descriptor in its heartbeat map, the lease it kept alive for it is gone and
\* the key of the endpoint is not in the store; "live" when the handle has the
\* descriptor in its map otherwise; "unregistered" when it has not.
MachineOf(h, d) ==
    IF d \notin DOMAIN heartbeats[h] THEN "unregistered"
    ELSE IF /\ leases[heartbeats[h][d]].st = "gone"
            /\ endpointKey(ServiceName(d), Address(d)) \notin DOMAIN store
         THEN "expired"
         ELSE "live"

\* Mutant of RegisterGrant: the lease is renewed from the moment it is granted.
RegisterGrantRenewed(h, d, ok) ==
    /\ hstate[h] = "up"
    /\ pc[h] = "idle"
    /\ IF ok
       THEN /\ FreeLeases # {}
            /\ leases' = [leases EXCEPT ![NextLease] =
                              [st |-> "kept", owner |-> h, ep |-> Pair(d)]]
            /\ epLease' = [epLease EXCEPT ![h][d] = NextLease]
            /\ pc' = [pc EXCEPT ![h] = "read"]
            /\ arg' = [arg EXCEPT ![h] = d]
            /\ atCall' = [atCall EXCEPT ![h] = MachineOf(h, d)]
            /\ UNCHANGED last
       ELSE /\ last' = Returned("Register", "err")
            /\ UNCHANGED <<leases, epLease, pc, arg, atCall>>
    /\ UNCHANGED <<store, hstate, heartbeats, orphaned, anyEnded>>
    /\ UNCHANGED nonRegistry

\* Register, first step: c.Grant and ep.lease = lease.ID.
RegisterGrant(h, d, ok) ==
    /\ hstate[h] = "up"
    /\ pc[h] = "idle"
    /\ IF ok
       THEN /\ FreeLeases # {}
            /\ leases' = [leases EXCEPT ![NextLease] =
                              [st |-> "granted", owner |-> h, ep |-> Pair(d)]]
            /\ epLease' = [epLease EXCEPT ![h][d] = NextLease]
            /\ pc' = [pc EXCEPT ![h] = "read"]
            /\ arg' = [arg EXCEPT ![h] = d]
            /\ atCall' = [atCall EXCEPT ![h] = MachineOf(h, d)]
            /\ UNCHANGED last
       ELSE /\ last' = Returned("Register", "err")
            /\ UNCHANGED <<leases, epLease, pc, arg, atCall>>
    /\ UNCHANGED <<store, hstate, heartbeats, orphaned, anyEnded>>
    /\ UNCHANGED nonRegistry

\* Register, second step: eps := r.Endpoints(service); contains(addr, eps)
\* decides whether createEndpoint is called.
RegisterRead(h, readOk) ==
    /\ hstate[h] = "up"
    /\ pc[h] = "read"
    /\ LET eps == Endpoints(ServiceName(arg[h]), readOk)
       IN  pc' = [pc EXCEPT ![h] =
                     IF ~contains(Address(arg[h]), eps) THEN "txn" ELSE "ka"]
    /\ UNCHANGED <<store, leases, hstate, heartbeats, epLease, arg,
                   last, orphaned, anyEnded, atCall>>
    /\ UNCHANGED nonRegistry

\* Registry.createEndpoint: Txn.If(version(ekey) = 0).Then(put under
\* ep.lease).Commit(). An error (transport, or the lease of the put no longer
\* exists) is returned; a lost compare is only logged.
createEndpoint(h, ok) ==
    /\ hstate[h] = "up"
    /\ pc[h] = "txn"
    /\ LET d    == arg[h]
           ekey == endpointKey(ServiceName(d), Address(d))
           succeeded == VersionIsZero(store, ekey)
       IN  IF ~ok \/ (succeeded /\ ~LeaseLive(leases, epLease[h][d]))
           THEN /\ last' = Returned("Register", "err")
                /\ pc' = [pc EXCEPT ![h] = "idle"]
                /\ arg' = [arg EXCEPT ![h] = NoDesc]
                /\ atCall' = [atCall EXCEPT ![h] = "none"]
                /\ UNCHANGED store
           ELSE /\ store' = IF succeeded
                                THEN OpPut(store, ekey, epLease[h][d])
                                ELSE store
                /\ pc' = [pc EXCEPT ![h] = "ka"]
                /\ UNCHANGED <<arg, last, atCall>>
    /\ UNCHANGED <<leases, hstate, heartbeats, epLease, orphaned, anyEnded>>
    /\ UNCHANGED nonRegistry

\* Registry.setupHeartbeat and the return of Register: c.KeepAlive(ep.lease),
\* r.heartbeats[ep] = &Heartbeat{ka: ch}. The client keeps renewing the lease
\* for as long as the process runs; on a lease that no longer exists the
\* channel is returned and closed at once.
setupHeartbeat(h, ok) ==
    /\ hstate[h] = "up"
    /\ pc[h] = "ka"
    /\ pc' = [pc EXCEPT ![h] = "idle"]
    /\ arg' = [arg EXCEPT ![h] = NoDesc]
    /\ atCall' = [atCall EXCEPT ![h] = "none"]
    /\ LET d == arg[h]
           l == epLease[h][d]
       IN  IF ok
           THEN /\ heartbeats' = [heartbeats EXCEPT ![h] = Put(@, d, l)]
                /\ leases' = IF LeaseLive(leases, l)
                                 THEN [leases EXCEPT ![l].st = "kept"]
                                 ELSE leases
                /\ last' = Returned("Register", "ok")
           ELSE /\ last' = Returned("Register", "err")
                /\ UNCHANGED <<heartbeats, leases>>
    /\ UNCHANGED <<store, hstate, epLease, orphaned, anyEnded>>
    /\ UNCHANGED nonRegistry

\* Mutant of Unregister: the lease revoked is the one the key of the endpoint
\* is bound to, whoever was granted it.
UnregisterByKey(h, d) ==
    /\ hstate[h] = "up"
    /\ pc[h] = "idle"
    /\ IF d \notin DOMAIN heartbeats[h]
       THEN /\ last' = Returned("Unregister", "noop")
            /\ UNCHANGED <<store, leases, heartbeats, anyEnded>>
       ELSE LET ekey == endpointKey(ServiceName(d), Address(d))
                l == IF ekey \in DOMAIN store THEN store[ekey].lease
                                              ELSE epLease[h][d]
                live == LeaseLive(leases, l)
            IN  /\ leases' = IF live THEN [leases EXCEPT ![l].st = "gone"]
                                     ELSE leases
                /\ store' = DetachLease(store, l)
                /\ heartbeats' = [heartbeats EXCEPT ![h] = Drop(@, d)]
                /\ anyEnded' = (anyEnded \/ live)
                /\ last' = Returned("Unregister", "ok")
    /\ UNCHANGED <<hstate, epLease, pc, arg, orphaned, atCall>>
    /\ UNCHANGED nonRegistry

\* Mutant of Unregister: the lease of the descriptor is revoked without
\* looking the descriptor up in the heartbeat map.
UnregisterNoLookup(h, d) ==
    /\ hstate[h] = "up"
    /\ pc[h] = "idle"
    /\ LET l == epLease[h][d]
           live == LeaseLive(leases, l)
       IN  /\ leases' = IF live THEN [leases EXCEPT ![l].st = "gone"] ELSE leases
           /\ store' = DetachLease(store, l)
           /\ heartbeats' = [heartbeats EXCEPT ![h] = Drop(@, d)]
           /\ anyEnded' = (anyEnded \/ live)
           /\ last' = Returned("Unregister",
                               IF d \in DOMAIN heartbeats[h] THEN "ok" ELSE "noop")
    /\ UNCHANGED <<hstate, epLease, pc, arg, orphaned, atCall>>
    /\ UNCHANGED nonRegistry

\* Registry.Unregister(ep). An endpoint that is not in the heartbeat map is
\* unknown to the handle: nothing is done and success is returned. Otherwise
\* the lease of the endpoint (ep.lease) is revoked, which removes the keys
\* attached to it, the keepalive stream is closed and the descriptor leaves
\* the heartbeat map.
Unregister(h, d) ==
    /\ hstate[h] = "up"
    /\ pc[h] = "idle"
    /\ IF d \notin DOMAIN heartbeats[h]
       THEN /\ last' = Returned("Unregister", "noop")
            /\ UNCHANGED <<store, leases, heartbeats, anyEnded>>
       ELSE LET l == epLease[h][d]
                live == LeaseLive(leases, l)
            IN  /\ leases' = IF live THEN [leases EXCEPT ![l].st = "gone"]
                                     ELSE leases
                /\ store' = DetachLease(store, l)
                /\ heartbeats' = [heartbeats EXCEPT ![h] = Drop(@, d)]
                /\ anyEnded' = (anyEnded \/ live)
                /\ last' = Returned("Unregister", "ok")
    /\ UNCHANGED <<hstate, epLease, pc, arg, orphaned, atCall>>
    /\ UNCHANGED nonRegistry

\* ------------------------------------------------------------ environment

\* The keepalive stream of a lease ends while the process runs (the
\* connection to the store is lost): the lease is no longer renewed.
KeepAliveLost(l) ==
    /\ leases[l].st = "kept"
    /\ leases' = [leases EXCEPT ![l].st = "granted"]
    /\ UNCHANGED <<store, hstate, heartbeats, epLease, pc, arg, last,
                   orphaned, anyEnded, atCall>>
    /\ UNCHANGED nonRegistry

\* The TTL of a lease that nobody renews elapses: the store drops the lease
\* and the keys attached to it.
LeaseExpire(l) ==
    /\ leases[l].st = "granted"
    /\ leases' = [leases EXCEPT ![l].st = "gone"]
    /\ store' = DetachLease(store, l)
    /\ anyEnded' = TRUE
    /\ UNCHANGED <<hstate, heartbeats, epLease, pc, arg, last, orphaned, atCall>>
    /\ UNCHANGED nonRegistry

\* The process that owns the handle dies without Unregister: its call in
\* flight is abandoned, its memory is lost and none of its leases is renewed
\* any more.
Crash(h) ==
    /\ hstate[h] = "up"
    /\ hstate' = [hstate EXCEPT ![h] = "dead"]
    /\ leases' = [l \in LeaseIds |->
                     IF leases[l].owner = h /\ leases[l].st = "kept"
                     THEN [leases[l] EXCEPT !.st = "granted"]
                     ELSE leases[l]]
    /\ orphaned' = [orphaned EXCEPT ![h] = {Pair(d) : d \in DOMAIN heartbeats[h]}]
    /\ heartbeats' = [heartbeats EXCEPT ![h] = <<>>]
    /\ epLease' = [epLease EXCEPT ![h] = [d \in DescsOf(h) |-> NoLease]]
    /\ pc' = [pc EXCEPT ![h] = "idle"]
    /\ arg' = [arg EXCEPT ![h] = NoDesc]
    /\ atCall' = [atCall EXCEPT ![h] = "none"]
    /\ UNCHANGED <<store, last, anyEnded>>
    /\ UNCHANGED nonRegistry

\* ------------------------------------------------------------ specification

\* The state after New() has returned on every handle, on an empty registry.
Init ==
    /\ store = <<>>
    /\ leases = [l \in LeaseIds |-> [st |-> "free", owner |-> "", ep |-> <<>>]]
    /\ hstate = [h \in Handles |-> "up"]
    /\ heartbeats = [h \in Handles |-> <<>>]
    /\ epLease = [h \in Handles |-> [d \in DescsOf(h) |-> NoLease]]
    /\ pc = [h \in Handles |-> "idle"]
    /\ arg = [h \in Handles |-> NoDesc]
    /\ last = Returned("none", "none")
    /\ orphaned = [h \in Handles |-> {}]
    /\ anyEnded = FALSE
    /\ atCall = [h \in Handles |-> "none"]
    /\ query = NoQuery
    /\ answer = NoAnswer
    /\ ConnIdle

Next ==
    \/ \E h \in Handles : \E d \in DescsOf(h), ok \in BOOLEAN : RegisterGrant(h, d, ok)
    \/ \E h \in Handles, readOk \in BOOLEAN : RegisterRead(h, readOk)
    \/ \E h \in Handles, ok \in BOOLEAN : createEndpoint(h, ok)
    \/ \E h \in Handles, ok \in BOOLEAN : setupHeartbeat(h, ok)
    \/ \E h \in Handles : \E d \in DescsOf(h) : Unregister(h, d)
    \/ \E l \in LeaseIds : KeepAliveLost(l)
    \/ \E l \in LeaseIds : LeaseExpire(l)
    \/ \E h \in Handles : Crash(h)

Spec == Init /\ [][Next]_vars

\* ------------------------------------------------- the read-only functions

\* Mutant of partsFromKeyWith: the key is split without cutting the prefix off.
partsFromWholeKey(prefix, key) ==
    LET parts == Split(key)
    IN  <<parts[1], parts[2]>>

\* Registry.partsFromKey: the service and the endpoint of a full key, on a
\* registry configured with the prefix.
partsFromKeyWith(prefix, key) ==
    LET parts == Split(DropFirst(key, Len(servicesKeyWith(prefix))))
    IN  <<parts[1], parts[2]>>

partsFromKey(key) == partsFromKeyWith(EtcdKeyPrefix, key)

\* Longest service name and address given to the key functions.
MaxLen == 2

\* The non-empty '/'-free strings of up to MaxLen characters over a letter and
\* a character that sorts before '/'.
RECURSIVE StringsUpTo(_)
StringsUpTo(n) ==
    IF n = 0 THEN {<<>>}
    ELSE LET shorter == StringsUpTo(n - 1)
         IN  shorter \cup {str \o <<c>> : str \in shorter, c \in {"a", "-"}}

Names == StringsUpTo(MaxLen) \ {<<>>}

\* Config.EtcdKeyPrefix as configFromEnv leaves it: it ends with one '/', and
\* may hold more of them.
KeyPrefixes == {EtcdKeyPrefix, <<"/">>, <<"g", "/", "s", "/">>}

\* The services and addresses of the keys other processes have registered.
ReadServices == {<<"w">>, <<"w", "b">>, <<"w", "-">>, <<"b">>}

ReadAddrs == {<<"a">>, <<"b">>}

ReadKeys == {endpointKey(s, a) : s \in ReadServices, a \in ReadAddrs}

\* The service names Endpoints is called with ("" asks for every service).
Queries == ReadServices \cup {<<>>, <<"a">>}

\* A store that holds the keys S, each put under a lease of its own that its
\* (other) process keeps alive.
StoreOf(S) ==
    LET ks == SortAscend(S)
    IN  [k \in S |->
            [lease |-> CHOOSE i \in 1..Len(ks) : ks[i] = k, value |-> <<>>]]

LeasesOf(S) ==
    LET ks == SortAscend(S)
    IN  [l \in LeaseIds |->
            IF l <= Len(ks)
            THEN [st |-> "kept", owner |-> "other", ep |-> partsFromKey(ks[l])]
            ELSE [st |-> "free", owner |-> "", ep |-> <<>>]]

\* The handles have just been created on a store other processes have
\* registered endpoints in.
ReadInit ==
    /\ \E S \in SUBSET ReadKeys :
           /\ Cardinality(S) <= MaxLeases
           /\ store = StoreOf(S)
           /\ leases = LeasesOf(S)
    /\ hstate = [h \in Handles |-> "up"]
    /\ heartbeats = [h \in Handles |-> <<>>]
    /\ epLease = [h \in Handles |-> [d \in DescsOf(h) |-> NoLease]]
    /\ pc = [h \in Handles |-> "idle"]
    /\ arg = [h \in Handles |-> NoDesc]
    /\ last = Returned("none", "none")
    /\ orphaned = [h \in Handles |-> {}]
    /\ anyEnded = FALSE
    /\ atCall = [h \in Handles |-> "none"]
    /\ query = NoQuery
    /\ answer = NoAnswer
    /\ ConnIdle

\* A call of Registry.Endpoints(service) from start to return (one call is
\* studied per run).
EndpointsCall(service, readOk) ==
    /\ query = NoQuery
    /\ query' = [fn |-> "Endpoints", service |-> service, readOk |-> readOk]
    /\ answer' = Endpoints(service, readOk)
    /\ UNCHANGED <<registryVars, connVars>>

\* A call of Registry.partsFromKey on the key endpointKey builds for an
\* endpoint, on a registry configured with the prefix.
PartsFromKeyCall(prefix, service, endpoint) ==
    /\ query = NoQuery
    /\ query' = [fn |-> "partsFromKey", prefix |-> prefix,
                 service |-> service, endpoint |-> endpoint]
    /\ answer' = partsFromKeyWith(prefix,
                                  endpointKeyWith(prefix, service, endpoint))
    /\ UNCHANGED <<registryVars, connVars>>

ReadNext ==
    \/ \E s \in Queries, readOk \in BOOLEAN : EndpointsCall(s, readOk)
    \/ \E prefix \in KeyPrefixes, s \in Names, a \in Names :
           PartsFromKeyCall(prefix, s, a)

ReadSpec == ReadInit /\ [][ReadNext]_vars

\* The runs in which processes crash: the descriptors of the pair (w, a) and
\* of its prefix sibling (wb, a), no transport error at lease grant or at the
\* range read.
CrashDescs(h) == DescsOf(h) \cap {"E1", "E3"}

NextCrash ==
    \/ \E h \in Handles : \E d \in CrashDescs(h) : RegisterGrant(h, d, TRUE)
    \/ \E h \in Handles : RegisterRead(h, TRUE)
    \/ \E h \in Handles, ok \in BOOLEAN : createEndpoint(h, ok)
    \/ \E h \in Handles, ok \in BOOLEAN : setupHeartbeat(h, ok)
    \/ \E h \in Handles : \E d \in CrashDescs(h) : Unregister(h, d)
    \/ \E l \in LeaseIds : KeepAliveLost(l)
    \/ \E l \in LeaseIds : LeaseExpire(l)
    \/ \E h \in Handles : Crash(h)

\* The store ends every lease that is not renewed once its TTL has elapsed.
FairSpec ==
    /\ Init
    /\ [][NextCrash]_vars
    /\ \A l \in LeaseIds : WF_vars(LeaseExpire(l))

\* ------------------------------------------------------- New and connect

\* The errors etcd.New can return, by what connect asks of them: the three
\* sentinel errors, a *net.OpError (Temporary(), Timeout(), Op, Addr), a
\* syscall.Errno, and an error of any other type.
Errors ==
    {[type |-> x] :
        x \in {"ErrClientConnTimeout", "Canceled", "DeadlineExceeded", "other"}}
    \cup {[type |-> "OpError", temporary |-> tm, timeout |-> to,
           op |-> o, addr |-> a] :
             tm \in BOOLEAN, to \in BOOLEAN,
             o \in {"dial", "read", "write"}, a \in {"nil", "addr"}}
    \cup {[type |-> "Errno", errno |-> n] : n \in {"ECONNREFUSED", "EHOSTUNREACH"}}

\* connect's closure fn for an attempt in which etcd.New returns e (NoErr: a
\* client): what fn returns, whether it sets fatal, and the client it leaves.
\* An error for which no branch returns leaves the switch and reaches the
\* final return nil.
fn(e) ==
    IF e = NoErr
    THEN [ret |-> NoErr, fatal |-> FALSE, client |-> Connected]
    ELSE IF e.type \in {"ErrClientConnTimeout", "Canceled", "DeadlineExceeded"}
    THEN [ret |-> e, fatal |-> FALSE, client |-> NilClient]
    ELSE IF e.type = "OpError"
    THEN IF e.temporary \/ e.timeout
         THEN [ret |-> e, fatal |-> FALSE, client |-> NilClient]
         ELSE IF e.op = "dial"
         THEN [ret |-> e, fatal |-> (e.addr = "nil"), client |-> NilClient]
         ELSE IF e.op = "read"
         THEN [ret |-> e, fatal |-> FALSE, client |-> NilClient]
         ELSE [ret |-> NoErr, fatal |-> FALSE, client |-> NilClient]
    ELSE IF e.type = "Errno"
    THEN IF e.errno = "ECONNREFUSED"
         THEN [ret |-> e, fatal |-> FALSE, client |-> NilClient]
         ELSE [ret |-> NoErr, fatal |-> FALSE, client |-> NilClient]
    ELSE [ret |-> e, fatal |-> TRUE, client |-> NilClient]

\* New is called: configFromEnv, the loggers, and connect up to the ticker.
NewCall ==
    /\ connPc = "idle"
    /\ connPc' = "loop"
    /\ UNCHANGED <<budget, ticks, attempts, fatal, err, client, newRet>>
    /\ UNCHANGED <<registryVars, readVars>>

\* One tick of the backoff ticker: the body of connect's loop, with etcd.New
\* returning e in this attempt.
Attempt(e) ==
    /\ connPc = "loop"
    /\ ticks < budget
    /\ ticks' = ticks + 1
    /\ LET res == fn(e)
       IN  /\ client' = res.client
           /\ fatal' = (fatal \/ res.fatal)
           /\ err' = res.ret
           /\ IF res.ret # NoErr
              THEN /\ attempts' = attempts + 1
                   /\ connPc' = IF fatal \/ res.fatal THEN "ret" ELSE "loop"
              ELSE /\ attempts' = attempts
                   /\ connPc' = "ret"
    /\ UNCHANGED <<budget, newRet>>
    /\ UNCHANGED <<registryVars, readVars>>

\* The connect timeout is over: the ticker closes its channel and the loop
\* ends.
TickerClosed ==
    /\ connPc = "loop"
    /\ ticks = budget
    /\ connPc' = "ret"
    /\ UNCHANGED <<budget, ticks, attempts, fatal, err, client, newRet>>
    /\ UNCHANGED <<registryVars, readVars>>

\* Mutant of connectReturns: the error is dropped.
connectReturnsNoError == [client |-> client, err |-> NoErr]

\* What connect returns once the loop is left: (nil, err) or (client, nil).
connectReturns ==
    IF err # NoErr THEN [client |-> NilClient, err |-> err]
    ELSE [client |-> client, err |-> NoErr]

\* connect returns and New ends: (nil, err) on an error; otherwise r.client is
\* set and setupWatch calls r.client.Watch, which panics on a nil client.
NewReturn ==
    /\ connPc = "ret"
    /\ connPc' = "done"
    /\ newRet' = IF connectReturns.err # NoErr
                 THEN [handle |-> "nil", client |-> NilClient,
                       err |-> connectReturns.err]
                 ELSE IF connectReturns.client = NilClient
                 THEN [handle |-> "panic", client |-> NilClient, err |-> NoErr]
                 ELSE [handle |-> "registry", client |-> Connected,
                       err |-> NoErr]
    /\ UNCHANGED <<budget, ticks, attempts, fatal, err, client>>
    /\ UNCHANGED <<registryVars, readVars>>

\* A process is about to call New, under a connect timeout that lets the
\* ticker deliver 1..MaxTicks ticks; no handle exists yet.
ConnInit ==
    /\ store = <<>>
    /\ leases = [l \in LeaseIds |-> [st |-> "free", owner |-> "", ep |-> <<>>]]
    /\ hstate = [h \in Handles |-> "up"]
    /\ heartbeats = [h \in Handles |-> <<>>]
    /\ epLease = [h \in Handles |-> [d \in DescsOf(h) |-> NoLease]]
    /\ pc = [h \in Handles |-> "idle"]
    /\ arg = [h \in Handles |-> NoDesc]
    /\ last = Returned("none", "none")
    /\ orphaned = [h \in Handles |-> {}]
    /\ anyEnded = FALSE
    /\ atCall = [h \in Handles |-> "none"]
    /\ query = NoQuery
    /\ answer = NoAnswer
    /\ connPc = "idle"
    /\ budget \in 1..MaxTicks
    /\ ticks = 0
    /\ attempts = 0
    /\ fatal = FALSE
    /\ err = NoErr
    /\ client = NilClient
    /\ newRet = NoReturn

ConnNext ==
    \/ NewCall
    \/ \E e \in Errors \cup {NoErr} : Attempt(e)
    \/ TickerClosed
    \/ NewReturn

\* The ticker keeps ticking until it closes, and the code after the loop runs.
ConnSpec ==
    /\ ConnInit
    /\ [][ConnNext]_vars
    /\ WF_vars(ConnNext)

\* ------------------------------------------------------------- watch task

\* parts[1] of partsFromKey is out of range: the key has no '/' after the
\* services key of the registry.
partsFromKeyPanics(prefix, key) ==
    Len(Split(DropFirst(key, Len(servicesKeyWith(prefix))))) < 2

\* parts[1] in the loop of Endpoints is out of range for some key the range
\* read returned.
EndpointsPanics(kv, service) ==
    LET skey == serviceKey(service)
        kvs  == RangeGet(kv, skey)
    IN  \E x \in 1..Len(kvs) : Len(Split(DropFirst(kvs[x], Len(skey)))) < 2

\* Most events waiting in the watch channel.
MaxEvents == 2

\* The descriptors the handle registers while its watch runs.
WatchDescs == {"E1", "E3"}

\* The keys clients of the store write under the services key: the keys of
\* endpoints, and the key of a service itself, which has a single segment.
WatchKeys ==
    {endpointKey(ServiceName(d), Address(d)) : d \in WatchDescs}
        \cup {serviceKey(SvcW)}

\* The service names Endpoints is asked for.
WatchQueries == {SvcW, SvcWB, <<>>}

\* A keyspace that holds the keys.
KeyspaceOf(keys) == [k \in keys |-> [lease |-> NoLease, value |-> <<>>]]

\* New has returned: r.heartbeats is empty, setupWatch has subscribed to the
\* services key with its prefix and started handleChanges.
WatchStart ==
    /\ query = NoQuery
    /\ query' = [fn |-> "watch", keys |-> {}, events |-> <<>>,
                 stream |-> "open", task |-> "running", process |-> "up",
                 handle |-> [heartbeats |-> {}, config |-> EtcdKeyPrefix,
                             client |-> Connected],
                 requests |-> <<>>]
    /\ UNCHANGED answer
    /\ UNCHANGED <<registryVars, connVars>>

\* What a put or delete of a key does to the keyspace and the watch channel.
Written(type, key) ==
    [query EXCEPT
         !.keys = IF type = "PUT" THEN @ \cup {key} ELSE @ \ {key},
         !.events = IF query.stream = "open"
                        THEN Append(@, [type |-> type, key |-> key])
                        ELSE @]

\* A client of the store puts or deletes a key under the services key.
StoreWrite(type, key) ==
    /\ query.fn = "watch"
    /\ Len(query.events) < MaxEvents
    /\ type = "DELETE" => key \in query.keys
    /\ query' = Written(type, key)
    /\ UNCHANGED answer
    /\ UNCHANGED <<registryVars, connVars>>

\* handleChanges, one event: partsFromKey on its key, then a log line.
\* Nothing of the Registry is written. An index out of range in partsFromKey
\* is a panic in the goroutine, which stops the process.
handleChanges ==
    /\ query.fn = "watch"
    /\ query.process = "up"
    /\ query.task = "running"
    /\ query.events # <<>>
    /\ query' = IF partsFromKeyPanics(query.handle.config, Head(query.events).key)
                THEN [query EXCEPT !.events = Tail(@), !.task = "panic",
                                   !.process = "panic"]
                ELSE [query EXCEPT !.events = Tail(@)]
    /\ UNCHANGED answer
    /\ UNCHANGED <<registryVars, connVars>>

\* The watch stream closes: the client closes the channel r.watcher.
StreamCloses ==
    /\ query.fn = "watch"
    /\ query.stream = "open"
    /\ query' = [query EXCEPT !.stream = "closed"]
    /\ UNCHANGED answer
    /\ UNCHANGED <<registryVars, connVars>>

\* handleChanges: the range over r.watcher ends when the channel is closed
\* and drained; the function returns and nothing else is done.
WatchTaskEnds ==
    /\ query.fn = "watch"
    /\ query.process = "up"
    /\ query.task = "running"
    /\ query.stream = "closed"
    /\ query.events = <<>>
    /\ query' = [query EXCEPT !.task = "ended"]
    /\ UNCHANGED answer
    /\ UNCHANGED <<registryVars, connVars>>

\* Endpoints(service) on the handle: a range read of the store, parsed.
WatchEndpoints(service) ==
    /\ query.fn = "watch"
    /\ query.process = "up"
    /\ LET kv == KeyspaceOf(query.keys)
       IN  IF EndpointsPanics(kv, service)
           THEN /\ query' = [query EXCEPT !.process = "panic"]
                /\ answer' = [call |-> "Endpoints", service |-> service,
                              keys |-> query.keys, panic |-> TRUE,
                              result |-> <<>>]
           ELSE /\ UNCHANGED query
                /\ answer' = [call |-> "Endpoints", service |-> service,
                              keys |-> query.keys, panic |-> FALSE,
                              result |-> EndpointsOf(kv, service, TRUE)]
    /\ UNCHANGED <<registryVars, connVars>>

\* Register(d) on the handle, from its range read to its return: the key is
\* put unless the read holds the address, and the heartbeat is set up.
WatchRegister(d) ==
    /\ query.fn = "watch"
    /\ query.process = "up"
    /\ Len(query.events) < MaxEvents
    /\ LET kv   == KeyspaceOf(query.keys)
           ekey == endpointKey(ServiceName(d), Address(d))
       IN  IF EndpointsPanics(kv, ServiceName(d))
           THEN /\ query' = [query EXCEPT !.process = "panic"]
                /\ answer' = [call |-> "Register", service |-> ServiceName(d),
                              keys |-> query.keys, panic |-> TRUE,
                              result |-> <<>>]
           ELSE LET put == ~contains(Address(d),
                                     EndpointsOf(kv, ServiceName(d), TRUE))
                    q   == IF put /\ ekey \notin query.keys
                               THEN Written("PUT", ekey) ELSE query
                IN  /\ query' = [q EXCEPT !.handle.heartbeats = @ \cup {d}]
                    /\ answer' = [call |-> "Register",
                                  service |-> ServiceName(d),
                                  keys |-> query.keys, panic |-> FALSE,
                                  result |-> <<>>]
    /\ UNCHANGED <<registryVars, connVars>>

WatchNext ==
    \/ WatchStart
    \/ \E type \in {"PUT", "DELETE"}, key \in WatchKeys : StoreWrite(type, key)
    \/ handleChanges
    \/ StreamCloses
    \/ WatchTaskEnds
    \/ \E service \in WatchQueries : WatchEndpoints(service)
    \/ \E d \in WatchDescs : WatchRegister(d)

\* One handle with its watch task, on a store other clients write to; the
\* goroutine of the watch task runs whenever it can.
WatchSpec ==
    /\ Init
    /\ [][WatchNext]_vars
    /\ WF_vars(handleChanges)
    /\ WF_vars(WatchTaskEnds)

\* ------------------------------------- connect with a validation read

\* The errors the validation read of connect ends with.
ReadErrors == {[type |-> x] : x \in {"Canceled", "DeadlineExceeded", "other"}}

\* The key of the validation read: client.KV.Get(ctx, "/services",
\* etcd.WithPrefix()).
validationKey == <<"/", "s", "e", "r", "v", "i", "c", "e", "s">>

\* connect's closure fn in the registry that keeps a map, for an attempt in
\* which etcd.New returns e and the validation read returns re: what fn
\* returns, whether it sets fatal, the client it leaves, whether the read
\* was made, and whether log.Fatalf ended the process.
fnValidating(e, re) ==
    LET retry == [ret |-> e, fatal |-> FALSE, client |-> NilClient,
                  read |-> FALSE, exit |-> FALSE]
        stop  == [ret |-> e, fatal |-> TRUE, client |-> NilClient,
                  read |-> FALSE, exit |-> FALSE]
        after == IF e.type \in {"Canceled", "DeadlineExceeded"} THEN retry
                 ELSE stop
    IN  IF e # NoErr
        THEN IF e.type = "OpError"
             THEN IF e.temporary \/ e.timeout THEN retry
                  ELSE IF e.op = "dial" THEN stop
                  ELSE IF e.op = "read" THEN retry
                  ELSE after
             ELSE IF e.type = "Errno"
             THEN IF e.errno = "ECONNREFUSED" THEN retry ELSE after
             ELSE after
        ELSE IF re = NoErr
        THEN [ret |-> NoErr, fatal |-> FALSE, client |-> Connected,
              read |-> TRUE, exit |-> FALSE]
        ELSE IF re.type \in {"Canceled", "DeadlineExceeded"}
        THEN [ret |-> re, fatal |-> FALSE, client |-> Connected,
              read |-> TRUE, exit |-> FALSE]
        ELSE [ret |-> re, fatal |-> FALSE, client |-> Connected,
              read |-> TRUE, exit |-> TRUE]

\* connect is called, under a connect timeout that lets the ticker deliver
\* b ticks.
ValidatingConnect(b) ==
    /\ query = NoQuery
    /\ query' = [fn |-> "connect", at |-> "loop", budget |-> b, ticks |-> 0,
                 attempts |-> 0, fatal |-> FALSE, err |-> NoErr,
                 client |-> NilClient, readKey |-> <<>>, readErr |-> NoErr]
    /\ UNCHANGED answer
    /\ UNCHANGED <<registryVars, connVars>>

\* One tick of the backoff ticker: the body of the loop of connect.
ValidatingAttempt(e, re) ==
    /\ query.fn = "connect"
    /\ query.at = "loop"
    /\ query.ticks < query.budget
    /\ e # NoErr => re = NoErr
    /\ LET res == fnValidating(e, re)
       IN  query' = [query EXCEPT
                         !.ticks = @ + 1,
                         !.client = res.client,
                         !.fatal = (@ \/ res.fatal),
                         !.err = res.ret,
                         !.readKey = IF res.read THEN validationKey ELSE <<>>,
                         !.readErr = IF res.read THEN re ELSE NoErr,
                         !.attempts = IF res.ret # NoErr /\ ~res.exit
                                          THEN @ + 1 ELSE @,
                         !.at = IF res.exit THEN "exit"
                                ELSE IF res.ret = NoErr THEN "ret"
                                ELSE IF query.fatal \/ res.fatal THEN "ret"
                                ELSE "loop"]
    /\ UNCHANGED answer
    /\ UNCHANGED <<registryVars, connVars>>

\* The connect timeout is over: the ticker closes its channel and the loop
\* ends.
ValidatingTickerClosed ==
    /\ query.fn = "connect"
    /\ query.at = "loop"
    /\ query.ticks = query.budget
    /\ query' = [query EXCEPT !.at = "ret"]
    /\ UNCHANGED answer
    /\ UNCHANGED <<registryVars, connVars>>

\* connect returns: (nil, err) on an error, (client, nil) otherwise.
ValidatingReturn ==
    /\ query.fn = "connect"
    /\ query.at = "ret"
    /\ query' = [query EXCEPT !.at = "done"]
    /\ answer' = IF query.err # NoErr
                 THEN [client |-> NilClient, err |-> query.err]
                 ELSE [client |-> query.client, err |-> NoErr]
    /\ UNCHANGED <<registryVars, connVars>>

ValidatingNext ==
    \/ \E b \in 1..MaxTicks : ValidatingConnect(b)
    \/ \E e \in Errors \cup {NoErr}, re \in ReadErrors \cup {NoErr} :
           ValidatingAttempt(e, re)
    \/ ValidatingTickerClosed
    \/ ValidatingReturn

\* A process calls the connect that validates its client with a read.
ValidatingSpec == Init /\ [][ValidatingNext]_vars

\* ------------------------------------------- the registry that keeps a map

\* The addresses of the keys ks (in their order) that belong to the service.
RECURSIVE AddrsOfService(_, _)
AddrsOfService(ks, service) ==
    IF ks = <<>> THEN <<>>
    ELSE LET parts == partsFromKey(Head(ks))
         IN  (IF parts[1] = service THEN <<parts[2]>> ELSE <<>>)
                 \o AddrsOfService(Tail(ks), service)

\* Registry.load: r.endpoints after a range read of the services key, sorted
\* by key; every service maps to the addresses of its keys.
load(keys) ==
    LET ks == SortAscend(keys)
    IN  [s \in {partsFromKey(k)[1] : k \in keys} |-> AddrsOfService(ks, s)]

\* Registry.Endpoints of the registry that keeps a map: r.endpoints[service],
\* nil for a service that is not in the map.
cachedEndpoints(endpoints, service) ==
    IF service \in DOMAIN endpoints THEN endpoints[service] ELSE <<>>

\* removeEndpoint: the last position of the endpoint is swapped with the end
\* of the slice and the slice one shorter is returned; array is what a slice
\* of the old length over the same array holds afterwards.
removeEndpoint(eps, endpoint) ==
    IF \A x \in 1..Len(eps) : eps[x] # endpoint
    THEN [found |-> FALSE, eps |-> eps, array |-> eps]
    ELSE LET idx == CHOOSE x \in 1..Len(eps) :
                        /\ eps[x] = endpoint
                        /\ \A y \in (x + 1)..Len(eps) : eps[y] # endpoint
             numEps == Len(eps)
             swapped == [x \in 1..numEps |->
                            IF x = idx THEN eps[numEps]
                            ELSE IF x = numEps THEN eps[idx]
                            ELSE eps[x]]
         IN  [found |-> TRUE, eps |-> SubSeq(swapped, 1, numEps - 1),
              array |-> swapped]

\* handleChanges of the registry that keeps a map, a delete event:
\* eps = removeEndpoint(eps, ...) assigns the local slice only; the slice in
\* r.endpoints keeps its length over the swapped array; the service is
\* deleted from the map when the local slice is empty.
handleDelete(endpoints, service, endpoint) ==
    IF service \notin DOMAIN endpoints THEN endpoints
    ELSE LET r == removeEndpoint(endpoints[service], endpoint)
         IN  IF Len(r.eps) = 0 THEN Drop(endpoints, service)
             ELSE [endpoints EXCEPT ![service] = r.array]

\* The same, a put event: for a service of the map, eps = append(eps,
\* endpoint) extends the local slice only and r.endpoints keeps the slice it
\* had; a new service gets a slice with the endpoint.
handlePut(endpoints, service, endpoint) ==
    IF service \in DOMAIN endpoints THEN endpoints
    ELSE Put(endpoints, service, <<endpoint>>)

\* Start(service, endpoint) on the handle under study: connect, load,
\* register. register puts the key when the map does not hold the endpoint
\* (the put commits when the key is new) and newEndpoint appends the endpoint
\* to the map. Start does not call setupWatch.
CacheStart(p) ==
    /\ query = NoQuery
    /\ \E keys \in SUBSET {endpointKey(q[1], q[2]) : q \in Pairs} :
           LET loaded == load(keys)
               efound == \E x \in 1..Len(cachedEndpoints(loaded, p[1])) :
                             loaded[p[1]][x] = p[2]
           IN  query' = [fn |-> "cache",
                         keys |-> keys \cup {endpointKey(p[1], p[2])},
                         endpoints |-> IF efound THEN loaded
                                       ELSE Put(loaded, p[1],
                                                Append(cachedEndpoints(loaded, p[1]), p[2])),
                         watching |-> FALSE, events |-> <<>>,
                         handled |-> <<>>]
    /\ UNCHANGED answer
    /\ UNCHANGED <<registryVars, connVars>>

\* Registry.setupWatch on the handle: a watch on the services key and the
\* task handleChanges.
CacheSetupWatch ==
    /\ query.fn = "cache"
    /\ ~query.watching
    /\ query' = [query EXCEPT !.watching = TRUE]
    /\ UNCHANGED answer
    /\ UNCHANGED <<registryVars, connVars>>

\* The event of a write, in the channel of the handle if it watches.
Notified(type, key) ==
    IF query.watching THEN Append(query.events, [type |-> type, key |-> key])
    ELSE query.events

\* Start(service, endpoint) of another handle, as the store sees it: the key
\* is put if it is new.
CacheOtherStart(p) ==
    /\ query.fn = "cache"
    /\ Len(query.events) < MaxEvents
    /\ LET ekey == endpointKey(p[1], p[2])
       IN  /\ ekey \notin query.keys
           /\ query' = [query EXCEPT !.keys = @ \cup {ekey},
                                     !.events = Notified("PUT", ekey)]
    /\ UNCHANGED answer
    /\ UNCHANGED <<registryVars, connVars>>

\* The lease of a key ends: the store deletes the key.
CacheKeyDeleted(ekey) ==
    /\ query.fn = "cache"
    /\ Len(query.events) < MaxEvents
    /\ ekey \in query.keys
    /\ query' = [query EXCEPT !.keys = @ \ {ekey},
                              !.events = Notified("DELETE", ekey)]
    /\ UNCHANGED answer
    /\ UNCHANGED <<registryVars, connVars>>

\* handleChanges of the registry that keeps a map, one event.
CacheHandleChanges ==
    /\ query.fn = "cache"
    /\ query.events # <<>>
    /\ LET ev == Head(query.events)
           parts == partsFromKey(ev.key)
       IN  query' = [query EXCEPT
                         !.events = Tail(@),
                         !.handled = <<ev.type, parts[1], parts[2]>>,
                         !.endpoints =
                             IF ev.type = "DELETE"
                             THEN handleDelete(@, parts[1], parts[2])
                             ELSE handlePut(@, parts[1], parts[2])]
    /\ UNCHANGED answer
    /\ UNCHANGED <<registryVars, connVars>>

CacheNext ==
    \/ \E p \in Pairs : CacheStart(p)
    \/ CacheSetupWatch
    \/ \E p \in Pairs : CacheOtherStart(p)
    \/ \E ekey \in {endpointKey(q[1], q[2]) : q \in Pairs} : CacheKeyDeleted(ekey)
    \/ CacheHandleChanges

\* One handle of the registry that keeps a map, and the other writers of the
\* store.
CacheSpec == Init /\ [][CacheNext]_vars

\* ------------------------------------------------- tasks sharing one handle

\* The tasks (goroutines) of one process that call Register and Unregister
\* on the same handle.
Tasks == {"T1", "T2"}

\* The descriptors the tasks register on the handle.
TaskDescs == DescsOf("H1")

\* The access of task t to r.heartbeats may begin: the Registry has no lock,
\* nothing makes the task wait.
MapAccess(pos, t) == TRUE

\* A task calls Register(d) or Unregister(d); its requests to the store are
\* done when it reaches the heartbeat map.
TaskCall(t, op, d) ==
    /\ query.fn \in {"none", "tasks"}
    /\ LET q == IF query = NoQuery
                THEN [fn |-> "tasks",
                      pos |-> [u \in Tasks |-> "idle"],
                      op |-> [u \in Tasks |-> "none"],
                      of |-> [u \in Tasks |-> NoDesc],
                      overlap |-> [u \in Tasks |-> FALSE],
                      heartbeats |-> {}, held |-> {}, fatal |-> FALSE]
                ELSE query
       IN  /\ ~q.fatal
           /\ q.pos[t] = "idle"
           /\ \A u \in Tasks : q.of[u] # d
           /\ query' = [q EXCEPT !.pos[t] = "called", !.op[t] = op, !.of[t] = d]
    /\ UNCHANGED answer
    /\ UNCHANGED <<registryVars, connVars>>

\* The task starts its access to r.heartbeats: the write of setupHeartbeat,
\* the lookup and delete of Unregister.
MapEnter(t) ==
    /\ query.fn = "tasks"
    /\ ~query.fatal
    /\ query.pos[t] = "called"
    /\ MapAccess(query.pos, t)
    /\ LET others == {u \in Tasks \ {t} : query.pos[u] = "inmap"}
       IN  query' = [query EXCEPT
                         !.pos[t] = "inmap",
                         !.overlap = [u \in Tasks |->
                                         IF u = t THEN others # {}
                                         ELSE IF u \in others THEN TRUE
                                         ELSE @[u]]]
    /\ UNCHANGED answer
    /\ UNCHANGED <<registryVars, connVars>>

\* The task ends its access and its call returns. An access that no other
\* access overlapped takes effect. One that overlapped another is a data
\* race on a Go map: it takes effect, or its effect is lost, or the runtime
\* stops the process ("concurrent map writes").
MapLeave(t, outcome) ==
    /\ query.fn = "tasks"
    /\ ~query.fatal
    /\ query.pos[t] = "inmap"
    /\ outcome \in (IF query.overlap[t] THEN {"applied", "lost", "fatal"}
                                        ELSE {"applied"})
    /\ LET d == query.of[t]
           isReg == query.op[t] = "Register"
           applied == IF isReg THEN query.heartbeats \cup {d}
                               ELSE query.heartbeats \ {d}
       IN  query' = [query EXCEPT
                         !.pos[t] = "idle", !.op[t] = "none", !.of[t] = NoDesc,
                         !.overlap[t] = FALSE,
                         !.heartbeats = IF outcome = "applied" THEN applied ELSE @,
                         !.held = IF outcome = "fatal" THEN @
                                  ELSE IF isReg THEN @ \cup {d} ELSE @ \ {d},
                         !.fatal = (outcome = "fatal")]
    /\ UNCHANGED answer
    /\ UNCHANGED <<registryVars, connVars>>

TaskNext ==
    \/ \E t \in Tasks, op \in {"Register", "Unregister"}, d \in TaskDescs :
           TaskCall(t, op, d)
    \/ \E t \in Tasks : MapEnter(t)
    \/ \E t \in Tasks, outcome \in {"applied", "lost", "fatal"} : MapLeave(t, outcome)

\* Two tasks of one process use one handle.
TaskSpec == Init /\ [][TaskNext]_vars

\* ---------------------------------------------------------- request contexts

\* Registry.requestCtx: context.WithTimeout(context.Background(),
\* r.config.EtcdRequestTimeoutSeconds), a context with a deadline.
requestCtx == [deadline |-> TRUE]

\* context.TODO(): a context that is never done.
contextTODO == [deadline |-> FALSE]

\* A request to the store and the context it is issued with.
Request(op, ctx) == [op |-> op, ctx |-> ctx]

\* The public calls: Register and Unregister of a descriptor, Endpoints of a
\* service.
PublicCalls ==
    {[call |-> c, of |-> d] : c \in {"Register", "Unregister"}, d \in Descs}
        \cup {[call |-> "Endpoints", of |-> s] : s \in Services \cup {<<>>}}

\* The request of Unregister: the revoke of the lease of the endpoint, under
\* a request context.
UnregisterRequest == Request("Revoke", requestCtx)

\* The first request of a public call: c.Grant(context.TODO(), ...) in
\* Register, c.KV.Get(ctx, ...) under requestCtx() in Endpoints.
FirstRequest(call) ==
    IF call = "Register" THEN Request("Grant", contextTODO)
    ELSE IF call = "Endpoints" THEN Request("Range", requestCtx)
    ELSE UnregisterRequest

\* The call in flight waits for the store on request req.
Waiting(req) ==
    [query EXCEPT !.at = "request", !.pending = req,
                  !.issued = Append(query.issued, req)]

\* The call in flight has returned ret.
Return(ret) == [query EXCEPT !.at = "done", !.ret = ret]

\* The call in flight after its pending request has ended: with an answer of
\* the store (ok), or with an error of the store or of the context (~ok);
\* found tells whether the range read of Register holds the address.
AfterRequest(ok, found) ==
    LET op == query.pending.op
    IN  IF query.call = "Register"
        THEN IF op = "Grant"
             THEN IF ok THEN Waiting(Request("Range", requestCtx))
                        ELSE Return("err")
             ELSE IF op = "Range"
             THEN IF ok /\ found THEN [query EXCEPT !.at = "heartbeat"]
                                 ELSE Waiting(Request("Txn", requestCtx))
             ELSE IF ok THEN [query EXCEPT !.at = "heartbeat"]
                        ELSE Return("err")
        ELSE IF query.call = "Endpoints"
        THEN Return("ok")
        ELSE Return(IF ok THEN "ok" ELSE "err")

\* A public call starts and issues its first request; the store answers
\* requests or has stopped answering.
CallStart(c, st) ==
    /\ query = NoQuery
    /\ query' = [fn |-> "call", call |-> c.call, of |-> c.of, store |-> st,
                 at |-> "request", pending |-> FirstRequest(c.call),
                 issued |-> <<FirstRequest(c.call)>>, ret |-> "none"]
    /\ UNCHANGED answer
    /\ UNCHANGED <<registryVars, connVars>>

\* The store answers the pending request, with a result or an error.
StoreAnswers(ok, found) ==
    /\ query.fn = "call"
    /\ query.at = "request"
    /\ query.store = "answers"
    /\ query' = AfterRequest(ok, found)
    /\ UNCHANGED answer
    /\ UNCHANGED <<registryVars, connVars>>

\* The deadline of the context of the pending request passes: the request
\* ends with context.DeadlineExceeded.
RequestTimeout ==
    /\ query.fn = "call"
    /\ query.at = "request"
    /\ query.pending.ctx.deadline
    /\ query' = AfterRequest(FALSE, FALSE)
    /\ UNCHANGED answer
    /\ UNCHANGED <<registryVars, connVars>>

\* setupHeartbeat in Register: c.KeepAlive returns its channel, or an error,
\* without waiting for the store.
HeartbeatStep(ok) ==
    /\ query.fn = "call"
    /\ query.at = "heartbeat"
    /\ query' = Return(IF ok THEN "ok" ELSE "err")
    /\ UNCHANGED answer
    /\ UNCHANGED <<registryVars, connVars>>

\* The store stops answering.
StoreStops ==
    /\ query.fn = "call"
    /\ query.at # "done"
    /\ query.store = "answers"
    /\ query' = [query EXCEPT !.store = "silent"]
    /\ UNCHANGED answer
    /\ UNCHANGED <<registryVars, connVars>>

CallNext ==
    \/ \E c \in PublicCalls, st \in {"answers", "silent"} : CallStart(c, st)
    \/ \E ok, found \in BOOLEAN : StoreAnswers(ok, found)
    \/ RequestTimeout
    \/ \E ok \in BOOLEAN : HeartbeatStep(ok)
    \/ StoreStops

\* One public call on a handle; the store answers in the end while it
\* answers at all, deadlines pass, and the caller runs.
CallSpec ==
    /\ Init
    /\ [][CallNext]_vars
    /\ WF_vars(\E ok, found \in BOOLEAN : StoreAnswers(ok, found))
    /\ WF_vars(RequestTimeout)
    /\ WF_vars(\E ok \in BOOLEAN : HeartbeatStep(ok))

\* ------------------------------------------------------- configuration

\* strings.Split(str, sep) for a one-character separator.
RECURSIVE SplitOn(_, _)
SplitOn(str, sep) ==
    IF \A i \in 1..Len(str) : str[i] # sep THEN <<str>>
    ELSE LET i == CHOOSE j \in 1..Len(str) :
                      /\ str[j] = sep
                      /\ \A k \in 1..(j - 1) : str[k] # sep
         IN  <<SubSeq(str, 1, i - 1)>> \o SplitOn(DropFirst(str, i), sep)

\* strings.Count(str, c) for a one-character c.
Count(str, c) == Cardinality({i \in 1..Len(str) : str[i] = c})

\* The strings joined with commas.
RECURSIVE JoinComma(_)
JoinComma(strs) ==
    IF Len(strs) = 0 THEN <<>>
    ELSE IF Len(strs) = 1 THEN strs[1]
    ELSE strs[1] \o <<",">> \o JoinComma(Tail(strs))

Http == <<"h", "t", "t", "p", ":", "/", "/">>

Https == <<"h", "t", "t", "p", "s", ":", "/", "/">>

\* ":2379", the default port of etcd
DefaultPort == <<":", "2", "3", "7", "9">>

\* defaultEtcdEndpoints: "http://127.0.0.1:2379"
defaultEtcdEndpoints ==
    Http \o <<"1", "2", "7", ".", "0", ".", "0", ".", "1">> \o DefaultPort

\* EnvOrDefaultStr / envutil.WithDefault on the value os.Getenv gives ("" for
\* a variable that is unset or empty).
EnvOrDefaultStr(val, def) == IF val = <<>> THEN def ELSE val

\* etcdEndpoints, for the value of GSR_ETCD_ENDPOINTS.
etcdEndpoints(val) ==
    LET eps == SplitOn(EnvOrDefaultStr(val, defaultEtcdEndpoints), ",")
    IN  [x \in 1..Len(eps) |->
            LET ep1 == IF ~HasPrefix(eps[x], <<"h", "t", "t", "p">>)
                       THEN Http \o eps[x]
                       ELSE eps[x]
            IN  IF Count(ep1, ":") = 1 THEN ep1 \o DefaultPort ELSE ep1]

\* Mutant of TrimRight: only one trailing character is cut.
TrimRightOnce(str, c) ==
    IF str # <<>> /\ str[Len(str)] = c THEN SubSeq(str, 1, Len(str) - 1)
    ELSE str

\* strings.TrimRight(str, c) for a one-character cutset.
RECURSIVE TrimRight(_, _)
TrimRight(str, c) ==
    IF str # <<>> /\ str[Len(str)] = c
    THEN TrimRight(SubSeq(str, 1, Len(str) - 1), c)
    ELSE str

\* configFromEnv: keyPrefix, for the value of GSR_KEY_PREFIX.
keyPrefix(val) == TrimRight(EnvOrDefaultStr(val, EtcdKeyPrefix), "/") \o <<"/">>

\* Longest value of GSR_KEY_PREFIX.
MaxPrefixLen == 3

\* The values of GSR_KEY_PREFIX: the strings over a letter and '/'.
RECURSIVE PrefixValues(_)
PrefixValues(n) ==
    IF n = 0 THEN {<<>>}
    ELSE LET shorter == PrefixValues(n - 1)
         IN  shorter \cup {str \o <<c>> : str \in shorter, c \in {"g", "/"}}

Digits == <<"0", "1", "2", "3", "4", "5", "6", "7", "8", "9">>

IsDigit(c) == \E i \in 1..Len(Digits) : Digits[i] = c

DigitValue(c) == (CHOOSE i \in 1..Len(Digits) : Digits[i] = c) - 1

\* The value of a string of digits.
RECURSIVE Decimal(_)
Decimal(str) ==
    IF str = <<>> THEN 0
    ELSE Decimal(SubSeq(str, 1, Len(str) - 1)) * 10 + DigitValue(str[Len(str)])

\* strconv.Atoi: an optional sign and at least one digit, nothing else (the
\* values of the model are far from the overflow of int).
Atoi(val) ==
    LET signed == val # <<>> /\ val[1] \in {"+", "-"}
        body   == IF signed THEN Tail(val) ELSE val
    IN  IF body = <<>> \/ \E i \in 1..Len(body) : ~IsDigit(body[i])
        THEN [ok |-> FALSE, n |-> 0]
        ELSE [ok |-> TRUE,
              n  |-> IF signed /\ val[1] = "-" THEN 0 - Decimal(body)
                     ELSE Decimal(body)]

\* strconv.ParseBool: the texts it accepts.
ParseBool(val) ==
    IF val \in {<<"1">>, <<"t">>, <<"T">>, <<"T", "R", "U", "E">>,
                <<"t", "r", "u", "e">>, <<"T", "r", "u", "e">>}
    THEN [ok |-> TRUE, b |-> TRUE]
    ELSE IF val \in {<<"0">>, <<"f">>, <<"F">>, <<"F", "A", "L", "S", "E">>,
                     <<"f", "a", "l", "s", "e">>, <<"F", "a", "l", "s", "e">>}
    THEN [ok |-> TRUE, b |-> FALSE]
    ELSE [ok |-> FALSE, b |-> FALSE]

\* Mutant of EnvOrDefaultInt: a value that does not parse gives 0.
EnvOrDefaultIntZero(val, def) ==
    IF val = <<>> THEN def ELSE Atoi(val).n

\* EnvOrDefaultInt on the value os.Getenv gives.
EnvOrDefaultInt(val, def) ==
    IF val = <<>> THEN def
    ELSE IF ~Atoi(val).ok THEN def
    ELSE Atoi(val).n

\* EnvOrDefaultBool on the value os.Getenv gives.
EnvOrDefaultBool(val, def) ==
    IF val = <<>> THEN def
    ELSE IF ~ParseBool(val).ok THEN def
    ELSE ParseBool(val).b

\* The values of an environment variable: unset or empty, numbers, booleans
\* and texts that are neither.
EnvValues ==
    {<<>>, <<"4", "2">>, <<"-", "3">>, <<"+", "5">>, <<"0">>, <<"1">>,
     <<"m">>, <<"4", "x">>, <<"-">>, <<"t", "r", "u", "e">>, <<"t">>,
     <<"f", "a", "l", "s", "e">>, <<"y", "e", "s">>}

\* The defaults a caller supplies.
StrDefaults == {<<"d">>, <<>>}

IntDefaults == {84, 0}

\* The defaults of the configuration.
cfgPath == <<"/", "e", "t", "c", "/", "g", "s", "r">>

defaultEtcdConnectTimeoutSeconds == 300

defaultEtcdRequestTimeoutSeconds == 1

defaultEtcdDialTimeoutSeconds == 1

defaultUseTLS == FALSE

defaultLogLevel == 0

defaultLogMicroseconds == FALSE

defaultLogFileTrace == FALSE

defaultLeaseSeconds == 60

\* Mutant of Join: the elements are concatenated.
JoinNoSeparator(dir, file) == dir \o file

\* filepath.Join of a clean directory and a file name.
Join(dir, file) == dir \o <<"/">> \o file

defaultTLSCertPath == Join(cfgPath, <<"s", "e", "r", "v", "e", "r", ".", "p", "e", "m">>)

defaultTLSKeyPath == Join(cfgPath, <<"s", "e", "r", "v", "e", "r", ".", "k", "e", "y">>)

\* The variables configFromEnv reads.
EnvNames ==
    {"GSR_ETCD_ENDPOINTS", "GSR_KEY_PREFIX", "GSR_ETCD_CONNECT_TIMEOUT_SECONDS",
     "GSR_ETCD_REQUEST_TIMEOUT_SECONDS", "GSR_ETCD_DIAL_TIMEOUT_SECONDS",
     "GSR_USE_TLS", "GSR_TLS_CERT_PATH", "GSR_TLS_KEY_PATH", "GSR_LOG_LEVEL",
     "GSR_LOG_MICROSECONDS", "GSR_LOG_FILE_TRACE", "GSR_LEASE_SECONDS"}

\* An environment gives each variable a value, <<>> for one that is unset; a
\* variable that is set holds "1", which is a string, a number and a boolean.
Environments == [EnvNames -> {<<>>, <<"1">>}]

\* configFromEnv in the environment env; the timeouts are in seconds.
configFromEnv(env) ==
    [EtcdEndpoints |-> etcdEndpoints(env["GSR_ETCD_ENDPOINTS"]),
     EtcdKeyPrefix |-> keyPrefix(env["GSR_KEY_PREFIX"]),
     EtcdConnectTimeoutSeconds |->
         EnvOrDefaultInt(env["GSR_ETCD_CONNECT_TIMEOUT_SECONDS"],
                         defaultEtcdConnectTimeoutSeconds),
     EtcdRequestTimeoutSeconds |->
         EnvOrDefaultInt(env["GSR_ETCD_REQUEST_TIMEOUT_SECONDS"],
                         defaultEtcdRequestTimeoutSeconds),
     EtcdDialTimeoutSeconds |->
         EnvOrDefaultInt(env["GSR_ETCD_DIAL_TIMEOUT_SECONDS"],
                         defaultEtcdDialTimeoutSeconds),
     UseTLS |-> EnvOrDefaultBool(env["GSR_USE_TLS"], defaultUseTLS),
     TLSCertPath |-> EnvOrDefaultStr(env["GSR_TLS_CERT_PATH"], defaultTLSCertPath),
     TLSKeyPath |-> EnvOrDefaultStr(env["GSR_TLS_KEY_PATH"], defaultTLSKeyPath),
     LogLevel |-> EnvOrDefaultInt(env["GSR_LOG_LEVEL"], defaultLogLevel),
     LogMicroseconds |->
         EnvOrDefaultBool(env["GSR_LOG_MICROSECONDS"], defaultLogMicroseconds),
     LogFileTrace |->
         EnvOrDefaultBool(env["GSR_LOG_FILE_TRACE"], defaultLogFileTrace),
     LeaseSeconds |-> EnvOrDefaultInt(env["GSR_LEASE_SECONDS"], defaultLeaseSeconds)]

\* Most entries in GSR_ETCD_ENDPOINTS.
MaxEntries == 2

\* The entries a caller writes: an optional scheme, a host (a name, a name
\* that starts with "http", an IPv6 literal) and an optional port.
Schemes == {<<>>, Http, Https}

Hosts == {<<"e">>, <<"h", "t", "t", "p", "d">>, <<"[", ":", ":", "1", "]">>}

Ports == {<<>>, <<":", "1">>}

Entries == [scheme : Schemes, host : Hosts, port : Ports]

EntryLists == UNION {[1..n -> Entries] : n \in 1..MaxEntries}

\* The text of an entry.
EntryText(en) == en.scheme \o en.host \o en.port

\* A process resolves its endpoints from GSR_ETCD_ENDPOINTS holding the entries.
EtcdEndpointsCall(ens) ==
    /\ query = NoQuery
    /\ query' = [fn |-> "etcdEndpoints", entries |-> ens]
    /\ answer' = etcdEndpoints(JoinComma([i \in 1..Len(ens) |-> EntryText(ens[i])]))
    /\ UNCHANGED <<registryVars, connVars>>

\* A process resolves its key prefix from GSR_KEY_PREFIX, and resolves it
\* again from the prefix it got.
KeyPrefixCall(val) ==
    /\ query = NoQuery
    /\ query' = [fn |-> "keyPrefix", val |-> val]
    /\ answer' = [once |-> keyPrefix(val), twice |-> keyPrefix(keyPrefix(val))]
    /\ UNCHANGED <<registryVars, connVars>>

\* A call of EnvOrDefaultStr, EnvOrDefaultInt or EnvOrDefaultBool for a
\* variable of value val.
EnvOrDefaultStrCall(val, def) ==
    /\ query = NoQuery
    /\ query' = [fn |-> "EnvOrDefaultStr", val |-> val, def |-> def]
    /\ answer' = EnvOrDefaultStr(val, def)
    /\ UNCHANGED <<registryVars, connVars>>

EnvOrDefaultIntCall(val, def) ==
    /\ query = NoQuery
    /\ query' = [fn |-> "EnvOrDefaultInt", val |-> val, def |-> def]
    /\ answer' = EnvOrDefaultInt(val, def)
    /\ UNCHANGED <<registryVars, connVars>>

EnvOrDefaultBoolCall(val, def) ==
    /\ query = NoQuery
    /\ query' = [fn |-> "EnvOrDefaultBool", val |-> val, def |-> def]
    /\ answer' = EnvOrDefaultBool(val, def)
    /\ UNCHANGED <<registryVars, connVars>>

\* A process resolves its whole configuration from an environment.
ConfigFromEnvCall(env) ==
    /\ query = NoQuery
    /\ query' = [fn |-> "configFromEnv", env |-> env]
    /\ answer' = configFromEnv(env)
    /\ UNCHANGED <<registryVars, connVars>>

\* No TLS configuration: the nil *tls.Config.
NilTLS ==
    [set |-> FALSE, MinVersion |-> "", InsecureSkipVerify |-> FALSE,
     Certificates |-> <<>>]

\* The files of a certificate and a key as TLSConfig finds them: whether
\* each can be read and whether the two are a valid key pair.
Files == [certReadable : BOOLEAN, keyReadable : BOOLEAN, validPair : BOOLEAN]

\* The fields of a Config that TLSConfig reads.
TLSSettings ==
    [UseTLS : BOOLEAN, TLSCertPath : {<<>>, defaultTLSCertPath},
     TLSKeyPath : {<<>>, defaultTLSKeyPath}]

\* Config.TLSConfig: nil without UseTLS, and nil after a message on stderr
\* when a path is empty, a file cannot be read or the pair is not valid.
TLSConfig(c, files) ==
    IF ~c.UseTLS THEN NilTLS
    ELSE IF c.TLSCertPath = <<>> \/ c.TLSKeyPath = <<>> THEN NilTLS
    ELSE IF ~files.certReadable THEN NilTLS
    ELSE IF ~files.keyReadable THEN NilTLS
    ELSE IF ~files.validPair THEN NilTLS
    ELSE [set |-> TRUE, MinVersion |-> "VersionTLS10",
          InsecureSkipVerify |-> FALSE, Certificates |-> <<"kp">>]

\* Config.EtcdConfig: the configuration of the etcd client.
EtcdConfig(c, files) ==
    [Endpoints |-> <<defaultEtcdEndpoints>>,
     DialTimeout |-> defaultEtcdDialTimeoutSeconds,
     TLS |-> TLSConfig(c, files)]

\* A process builds the configuration of its etcd client.
EtcdConfigCall(c, files) ==
    /\ query = NoQuery
    /\ query' = [fn |-> "EtcdConfig", config |-> c, files |-> files]
    /\ answer' = EtcdConfig(c, files)
    /\ UNCHANGED <<registryVars, connVars>>

ConfNext ==
    \/ \E env \in Environments : ConfigFromEnvCall(env)
    \/ \E c \in TLSSettings, files \in Files : EtcdConfigCall(c, files)
    \/ \E ens \in EntryLists : EtcdEndpointsCall(ens)
    \/ \E val \in PrefixValues(MaxPrefixLen) : KeyPrefixCall(val)
    \/ \E val \in EnvValues, def \in StrDefaults : EnvOrDefaultStrCall(val, def)
    \/ \E val \in EnvValues, def \in IntDefaults : EnvOrDefaultIntCall(val, def)
    \/ \E val \in EnvValues, def \in BOOLEAN : EnvOrDefaultBoolCall(val, def)

\* A process reads its configuration; no handle is in use.
ConfSpec == Init /\ [][ConfNext]_vars

\* ------------------------------------------ a handle and the environment

\* Most calls of os.Setenv a process makes after New.
MaxSetenvs == 3

\* The variables the key prefix, the request timeout and the lease TTL are
\* read from.
HandleEnvNames ==
    {"GSR_KEY_PREFIX", "GSR_ETCD_REQUEST_TIMEOUT_SECONDS", "GSR_LEASE_SECONDS"}

\* The values of a variable: unset, or "7", a string and a number that is
\* none of the defaults.
HandleValues == {<<>>, <<"7">>}

\* The environments New is called in.
HandleEnvironments ==
    {env \in [EnvNames -> HandleValues] :
        \A name \in EnvNames \ HandleEnvNames : env[name] = <<>>}

\* No call on the handle yet.
NoCall ==
    [op |-> "none", getKey |-> <<>>, putKey |-> <<>>, timeout |-> 0,
     ttl |-> 0, allChanged |-> FALSE]

\* A variant of HandleConfig: the configuration is read from the environment
\* at each use.
HandleConfigFromEnv(r) == configFromEnv(r.env)

\* r.config, set by New and read by servicesKey, requestCtx and Register.
HandleConfig(r) == r.config

\* New: r.config = configFromEnv(); newEnv keeps the environment of the call.
HandleNew(env) ==
    /\ query = NoQuery
    /\ query' = [fn |-> "handle", env |-> env, newEnv |-> env,
                 config |-> configFromEnv(env), setenvs |-> 0,
                 call |-> NoCall]
    /\ answer' = NoAnswer
    /\ UNCHANGED <<registryVars, connVars>>

\* The process changes a GSR_* variable of its environment.
Setenv(name, val) ==
    /\ query.fn = "handle"
    /\ query.setenvs < MaxSetenvs
    /\ query.env[name] # val
    /\ query' = [query EXCEPT !.env = [@ EXCEPT ![name] = val],
                              !.setenvs = @ + 1]
    /\ UNCHANGED answer
    /\ UNCHANGED <<registryVars, connVars>>

\* Every variable the three values are read from differs from New's.
AllChanged(r) == \A name \in HandleEnvNames : r.env[name] # r.newEnv[name]

\* Register(ep): the lease is granted with r.config.LeaseSeconds, the read of
\* Endpoints and the put of createEndpoint use the keys of servicesKey and the
\* timeout of requestCtx.
HandleRegister(d) ==
    /\ query.fn = "handle"
    /\ query' =
          [query EXCEPT !.call =
              [op |-> "Register",
               getKey |-> serviceKeyWith(HandleConfig(query).EtcdKeyPrefix,
                                         ServiceName(d)),
               putKey |-> endpointKeyWith(HandleConfig(query).EtcdKeyPrefix,
                                          ServiceName(d), Address(d)),
               timeout |-> HandleConfig(query).EtcdRequestTimeoutSeconds,
               ttl |-> HandleConfig(query).LeaseSeconds,
               allChanged |-> AllChanged(query)]]
    /\ UNCHANGED answer
    /\ UNCHANGED <<registryVars, connVars>>

\* Endpoints(service): a read of the service's key under requestCtx.
HandleEndpoints(service) ==
    /\ query.fn = "handle"
    /\ query' =
          [query EXCEPT !.call =
              [op |-> "Endpoints",
               getKey |-> serviceKeyWith(HandleConfig(query).EtcdKeyPrefix,
                                         service),
               putKey |-> <<>>,
               timeout |-> HandleConfig(query).EtcdRequestTimeoutSeconds,
               ttl |-> 0,
               allChanged |-> AllChanged(query)]]
    /\ UNCHANGED answer
    /\ UNCHANGED <<registryVars, connVars>>

HandleNext ==
    \/ \E env \in HandleEnvironments : HandleNew(env)
    \/ \E name \in EnvNames, val \in HandleValues : Setenv(name, val)
    \/ \E d \in WatchDescs : HandleRegister(d)
    \/ \E service \in Services : HandleEndpoints(service)

\* One handle in a process that changes its environment.
HandleSpec == Init /\ [][HandleNext]_vars

\* ------------------------------------------------------ vocabulary of claims

\* The key of the endpoint a descriptor names.
KeyOf(d) == endpointKey(ServiceName(d), Address(d))

KeyOfPair(p) == endpointKey(p[1], p[2])

\* The handle runs and holds the descriptor in its heartbeat map: Register
\* returned success for it and it was not unregistered since.
Registered(h, d) == hstate[h] = "up" /\ d \in DOMAIN heartbeats[h]

\* The keepalive stream stored for the descriptor is open.
StreamOpen(h, d) == leases[heartbeats[h][d]].st = "kept"

\* This step is the return of Register with success on handle h.
RegisterOk(h) ==
    /\ pc[h] = "ka"
    /\ pc'[h] = "idle"
    /\ hstate'[h] = "up"
    /\ last' = Returned("Register", "ok")

\* A range read of the store (by any handle, without read error) returns the
\* endpoint: Endpoints(service) has its address, or Endpoints("") has the pair.
Returns(kv, p) ==
    \/ contains(p[2], EndpointsOf(kv, p[1], TRUE))
    \/ \E i \in 1..Len(EndpointsOf(kv, <<>>, TRUE)) :
           EndpointsOf(kv, <<>>, TRUE)[i] = p

\* C1: whenever Register(e) returns success, the store holds the key of e at
\* that moment, provided no lease has expired or been revoked.
C1_KeyAtReturn ==
    [][\A h \in Handles :
          (RegisterOk(h) /\ ~anyEnded') => KeyOf(arg[h]) \in DOMAIN store']_vars

\* C2: every lease that a handle keeps alive for an endpoint is the lease the
\* key of that endpoint is bound to.
C2_HeartbeatOnlyCommitted ==
    \A l \in LeaseIds :
        leases[l].st = "kept" =>
            /\ KeyOfPair(leases[l].ep) \in DOMAIN store
            /\ store[KeyOfPair(leases[l].ep)].lease = l

\* C3: while a handle holds e registered with its heartbeat stream open, the
\* key of e is in the store, whatever the other handles do.
C3_KeyStaysWhileHeartbeating ==
    \A h \in Handles : \A d \in DescsOf(h) :
        (Registered(h, d) /\ StreamOpen(h, d)) => KeyOf(d) \in DOMAIN store

\* The leases granted so far for a pair: one per Register call for it.
LeasesFor(p) == {l \in LeaseIds : leases[l].st # "free" /\ leases[l].ep = p}

\* C4: when each of the two handles has run one Register for the same pair,
\* these were the only Register calls for it, both have returned success and
\* no lease has ended, then exactly one put has committed: the key is in the
\* store, bound to the lease of one of the two calls.
C4_RaceOneWinner ==
    \A d1 \in DescsOf("H1"), d2 \in DescsOf("H2") :
        (/\ Pair(d1) = Pair(d2)
         /\ Registered("H1", d1)
         /\ Registered("H2", d2)
         /\ LeasesFor(Pair(d1)) = {heartbeats["H1"][d1], heartbeats["H2"][d2]}
         /\ ~anyEnded)
        => /\ KeyOf(d1) \in DOMAIN store
           /\ store[KeyOf(d1)].lease \in LeasesFor(Pair(d1))

\* The call in flight on h registers a pair that h already holds registered.
RepeatCall(h) ==
    /\ pc[h] # "idle"
    /\ \E d \in DOMAIN heartbeats[h] : Pair(d) = Pair(arg[h])

\* C5: a second Register(e) on the same handle changes no key of the store,
\* and when it returns success the store holds the one key of e.
C5_RegisterTwice ==
    [][\A h \in Handles :
          (RepeatCall(h) /\ pc'[h] # pc[h] /\ ~anyEnded')
          => /\ store' = store
             /\ RegisterOk(h) => KeyOf(arg[h]) \in DOMAIN store']_vars

\* C6: per handle and (service, address) pair, at most one lease is kept alive
\* and the heartbeat map has at most one entry.
C6_OneLeasePerPair ==
    \A h \in Handles : \A p \in Pairs :
        /\ Cardinality({l \in LeaseIds : /\ leases[l].st = "kept"
                                          /\ leases[l].owner = h
                                          /\ leases[l].ep = p}) <= 1
        /\ Cardinality({d \in DOMAIN heartbeats[h] : Pair(d) = p}) <= 1

\* Another registration of the same pair exists or is in flight: on another
\* handle, or on this handle through another descriptor.
OthersHold(h, d) ==
    \E h2 \in Handles : \E d2 \in DescsOf(h2) :
        /\ <<h2, d2>> # <<h, d>>
        /\ Pair(d2) = Pair(d)
        /\ \/ Registered(h2, d2)
           \/ pc[h2] # "idle" /\ arg[h2] = d2

\* This step is the return of Unregister(d) on handle h, which held d
\* registered.
UnregisterReturns(h, d) ==
    /\ d \in DOMAIN heartbeats[h]
    /\ d \notin DOMAIN heartbeats'[h]
    /\ hstate'[h] = "up"

\* C7: when Unregister(e) returns on a handle that had registered e, and e is
\* not registered otherwise, the range reads that follow do not return e
\* (stated for the read that follows the return: a later read differs only
\* once a Register has written again).
C7_UnregisterRemoves ==
    [][\A h \in Handles : \A d \in DescsOf(h) :
          (UnregisterReturns(h, d) /\ ~OthersHold(h, d))
          => ~Returns(store', Pair(d))]_vars

\* C8: an Unregister that finds the endpoint unknown changes neither the
\* store nor the leases nor the heartbeat map; every other Unregister removes
\* its descriptor from the map, so that a second Unregister finds it unknown.
C8_UnregisterUnknownNoop ==
    [][(/\ last'.op = "Unregister"
        /\ hstate' = hstate
        /\ <<last, heartbeats>>' # <<last, heartbeats>>)
       => IF last'.ret = "noop"
          THEN /\ store' = store
               /\ leases' = leases
               /\ heartbeats' = heartbeats
          ELSE \E h \in Handles : \E d \in DOMAIN heartbeats[h] :
                   heartbeats' = [heartbeats EXCEPT ![h] = Drop(@, d)]]_vars

\* C8 witness: an Unregister of an unknown endpoint has returned while the
\* store holds keys and a handle holds a registration.
C8_Witness ==
    /\ last = Returned("Unregister", "noop")
    /\ store # <<>>
    /\ \E h \in Handles : heartbeats[h] # <<>>

\* C10: once H1 has registered (s, a1) and H2 has registered (s, a2), and no
\* lease has ended, Endpoints(s) (the same read on either handle) contains
\* both addresses.
C10_BothSeeBoth ==
    \A d1 \in DescsOf("H1"), d2 \in DescsOf("H2") :
        (/\ ServiceName(d1) = ServiceName(d2)
         /\ Address(d1) # Address(d2)
         /\ Registered("H1", d1)
         /\ Registered("H2", d2)
         /\ ~anyEnded)
        => LET eps == Endpoints(ServiceName(d1), TRUE)
           IN  contains(Address(d1), eps) /\ contains(Address(d2), eps)

\* C10 witness: both registrations have returned and both keys are read.
C10_Witness ==
    /\ Registered("H1", "E1")
    /\ Registered("H2", "E4")
    /\ ~anyEnded
    /\ Len(Endpoints(SvcW, TRUE)) = 2
    /\ KeyOf("E1") \in DOMAIN store
    /\ KeyOf("E4") \in DOMAIN store

\* Some running handle holds the pair registered or has a Register for it in
\* flight.
HeldByRunning(p) ==
    \E h \in Handles : \E d \in DescsOf(h) :
        /\ Pair(d) = p
        /\ hstate[h] = "up"
        /\ \/ d \in DOMAIN heartbeats[h]
           \/ pc[h] # "idle" /\ arg[h] = d

\* C9: after Register(e) returned success and the owning process crashed
\* without Unregister, while no running process holds e, eventually the key
\* of e is not in the store and the range reads do not return e.
C9_CrashedKeyDisappears ==
    \A h \in Handles : \A p \in Pairs :
        (hstate[h] = "dead" /\ p \in orphaned[h] /\ ~HeldByRunning(p))
        ~> (KeyOfPair(p) \notin DOMAIN store /\ ~Returns(store, p))

C12_RegisteredIsListed ==
    \A h \in Handles : \A d \in DescsOf(h) :
        (Registered(h, d) /\ ~anyEnded)
        => contains(Address(d), Endpoints(ServiceName(d), TRUE))

\* C12 witness: Register((w, a)) has returned on a handle after its own put
\* committed, and the read of the service lists the address.
C12_Witness ==
    \E h \in Handles :
        /\ Registered(h, "E1")
        /\ ~anyEnded
        /\ KeyOf("E1") \in DOMAIN store
        /\ store[KeyOf("E1")].lease = heartbeats[h]["E1"]
        /\ contains(AddrA, Endpoints(SvcW, TRUE))

\* The read returned: Endpoints(s) for a non-empty s, without read error.
ReadOf(s) == query = [fn |-> "Endpoints", service |-> s, readOk |-> TRUE]

\* C13: each descriptor returned by Endpoints(s), s non-empty, is the parse of
\* its key: its service name is s and its address is the address segment of
\* the key.
C13_DescriptorIsParseOfKey ==
    \A s \in Queries \ {<<>>} :
        ReadOf(s) =>
            LET kvs == RangeGet(store, serviceKey(s))
            IN  \A i \in 1..Len(answer) :
                    /\ answer[i][1] = s
                    /\ answer[i][2] = partsFromKey(kvs[i])[2]

\* The keys of the endpoints of service s, in ascending order.
KeysOfService(kv, s) == SortAscend({k \in DOMAIN kv : partsFromKey(k)[1] = s})

\* C14: Endpoints(s), s non-empty, returns exactly the endpoints of service s:
\* one descriptor per key of s, with the address of that key, and none for a
\* key of another service.
C14_ExactlyTheService ==
    \A s \in Queries \ {<<>>} :
        ReadOf(s) =>
            LET own == KeysOfService(store, s)
            IN  /\ Len(answer) = Len(own)
                /\ \A i \in 1..Len(own) : answer[i][2] = partsFromKey(own[i])[2]

\* The endpoints (service, address) whose keys the store holds.
EndpointsIn(kv) ==
    {p \in ReadServices \X ReadAddrs : endpointKey(p[1], p[2]) \in DOMAIN kv}

\* C15: Endpoints("") returns one descriptor for every endpoint key of the
\* store, with the service name and the address of the key.
C15_EmptyNameIsUnion ==
    ReadOf(<<>>) =>
        /\ Len(answer) = Cardinality(DOMAIN store)
        /\ {answer[i] : i \in 1..Len(answer)} = EndpointsIn(store)

\* C15 witness: Endpoints("") has returned the endpoints of three services.
C15_Witness ==
    /\ ReadOf(<<>>)
    /\ Len(answer) = 3
    /\ Cardinality({answer[i][1] : i \in 1..Len(answer)}) = 3

\* C16: a call of Endpoints whose range read fails returns the empty list and
\* changes neither the store nor the leases nor a heartbeat map.
C16_ReadErrorGivesEmptyList ==
    [][(query'.fn = "Endpoints" /\ ~query'.readOk)
       => /\ answer' = <<>>
          /\ store' = store
          /\ leases' = leases
          /\ heartbeats' = heartbeats]_vars

\* C16 witness: Endpoints has returned the empty list on a read error for a
\* service that has endpoints in the store.
C16_Witness ==
    /\ query = [fn |-> "Endpoints", service |-> <<"w">>, readOk |-> FALSE]
    /\ answer = <<>>
    /\ KeysOfService(store, <<"w">>) # <<>>

\* Lexicographic order on (service, address).
PairLess(p, q) ==
    \/ StrLess(p[1], q[1])
    \/ p[1] = q[1] /\ StrLess(p[2], q[2])

\* The string holds a character that sorts before '/'.
SortsBeforeSlash(str) == \E i \in 1..Len(str) : Ord(str[i]) < Ord("/")

\* C17 as claimed: the descriptors Endpoints returns (here for every service,
\* where each descriptor carries the service name of its key) are in
\* lexicographic order by (service, address).
C17_LexicographicOrder ==
    ReadOf(<<>>) =>
        \A i, j \in 1..Len(answer) : i < j => PairLess(answer[i], answer[j])

\* C17 as amended: Endpoints returns one descriptor per key read, in ascending
\* key order; for Endpoints("") this is the lexicographic order by (service,
\* address) whenever no service name holds a character that sorts before '/'.
C17_AscendingKeyOrder ==
    \A s \in Queries :
        ReadOf(s) =>
            LET kvs == RangeGet(store, serviceKey(s))
            IN  /\ Len(answer) = Len(kvs)
                /\ \A i, j \in 1..Len(kvs) :
                       i < j =>
                           /\ StrLess(kvs[i], kvs[j])
                           /\ answer[i][2] = partsFromKey(kvs[i])[2]
                           /\ answer[j][2] = partsFromKey(kvs[j])[2]
                /\ (s = <<>> /\ \A i \in 1..Len(answer) :
                                   ~SortsBeforeSlash(answer[i][1]))
                   => \A i, j \in 1..Len(answer) :
                          i < j => PairLess(answer[i], answer[j])

\* C17 witness: Endpoints("") has returned three endpoints of two services,
\* one name a prefix of the other, none with a character before '/'.
C17_Witness ==
    /\ ReadOf(<<>>)
    /\ Len(answer) = 3
    /\ {answer[i][1] : i \in 1..Len(answer)} = {<<"w">>, <<"w", "b">>}

\* C18: for every configured prefix and all non-empty '/'-free s and a,
\* partsFromKey(endpointKey(s, a)) = (s, a).
C18_KeyRoundTrip ==
    query.fn = "partsFromKey" => answer = <<query.service, query.endpoint>>

\* C18 witness: the round trip was made under a prefix with two '/' for a
\* service name and an address of two characters.
C18_Witness ==
    /\ query = [fn |-> "partsFromKey", prefix |-> <<"g", "/", "s", "/">>,
                service |-> <<"a", "-">>, endpoint |-> <<"-", "a">>]
    /\ answer = <<<<"a", "-">>, <<"-", "a">>>>

\* C19: connect never returns a missing client together with no error, and
\* New ends in one of two outcomes: a handle holding a connected client and no
\* error, or no handle and an error.
C19_NewClientOrError ==
    /\ connPc \in {"ret", "done"} =>
           ~(connectReturns.client = NilClient /\ connectReturns.err = NoErr)
    /\ connPc = "done" =>
           \/ /\ newRet.handle = "registry"
              /\ newRet.client = Connected
              /\ newRet.err = NoErr
           \/ /\ newRet.handle = "nil"
              /\ newRet.err # NoErr

\* The errors listed as retriable: the three sentinel errors, a temporary or
\* timeout network error, connection refused on dial or read, ECONNREFUSED.
Retriable(e) ==
    \/ e.type \in {"ErrClientConnTimeout", "Canceled", "DeadlineExceeded"}
    \/ /\ e.type = "OpError"
       /\ \/ e.temporary
          \/ e.timeout
          \/ e.op = "dial" /\ e.addr = "addr"
          \/ e.op = "read"
    \/ e.type = "Errno" /\ e.errno = "ECONNREFUSED"

\* This step is an attempt of connect's loop.
AttemptStep == connPc = "loop" /\ ticks' = ticks + 1

\* This step is the end of the loop on the closing of the ticker.
LoopEnds == connPc = "loop" /\ connPc' = "ret" /\ ticks' = ticks

\* C20: an attempt that fails with a retriable error stays in the retry loop;
\* the loop then ends only when the connect timeout is over, and connect
\* returns the last error and no client; an attempt that succeeds ends the
\* loop and connect returns its client and no error; connect always
\* terminates.
C20_RetryUntilBudget ==
    /\ [][/\ (AttemptStep /\ err' # NoErr /\ Retriable(err'))
             => (connPc' = "loop" /\ attempts' = attempts + 1)
          /\ LoopEnds
             => (/\ ticks = budget
                 /\ attempts = budget
                 /\ Retriable(err)
                 /\ connectReturns' = [client |-> NilClient, err |-> err])
          /\ (AttemptStep /\ client' = Connected)
             => (/\ connPc' = "ret"
                 /\ connectReturns' = [client |-> Connected, err |-> NoErr])
       ]_vars
    /\ (connPc = "loop") ~> (connPc = "done")

\* C20 witness: every attempt failed with a retriable error, the ticker has
\* closed after MaxTicks attempts and New has returned the last error.
C20_Witness ==
    /\ connPc = "done"
    /\ budget = MaxTicks
    /\ attempts = MaxTicks
    /\ Retriable(err)
    /\ newRet = [handle |-> "nil", client |-> NilClient, err |-> err]

\* C21: an attempt that fails with an error that is not retriable (unknown
\* host, or any class not recognised) ends the loop at once and connect
\* returns that error and no client.
C21_FatalAbortsAtOnce ==
    [][\A e \in Errors :
          (~Retriable(e) /\ Attempt(e))
          => /\ connPc' = "ret"
             /\ connectReturns' = [client |-> NilClient, err |-> e]]_vars

\* This step is the return of Register with an error on handle h, after the
\* lease grant: at the transactional put or at the opening of the keepalive.
RegisterFails(h) ==
    /\ pc[h] \in {"txn", "ka"}
    /\ pc'[h] = "idle"
    /\ hstate'[h] = "up"
    /\ last' = Returned("Register", "err")

\* C22: when Register returns an error, the key of the endpoint is not in the
\* store under the lease of this call, the heartbeat map is unchanged and the
\* lease of this call is not renewed; a failed lease grant changes nothing.
C22_NoPartialState ==
    [][/\ \A h \in Handles :
              RegisterFails(h) =>
                  LET l == epLease[h][arg[h]]
                      ekey == KeyOf(arg[h])
                  IN  /\ heartbeats' = heartbeats
                      /\ leases'[l].st # "kept"
                      /\ ~(ekey \in DOMAIN store' /\ store'[ekey].lease = l)
       /\ (pc' = pc /\ last' # last /\ last' = Returned("Register", "err"))
          => (store' = store /\ leases' = leases /\ heartbeats' = heartbeats)
      ]_vars

\* The leases granted so far.
Granted == {l \in LeaseIds : leases[l].st # "free"}

\* C23: every key of the store is <prefix>services/<service>/<address> for an
\* endpoint given to Register, has exactly two segments after the services
\* directory and an empty value; after a single Register on the empty store
\* the store holds exactly the key of that endpoint.
C23_KeyForm ==
    /\ \A k \in DOMAIN store :
           /\ \E d \in Descs :
                  k = EtcdKeyPrefix \o <<"s", "e", "r", "v", "i", "c", "e", "s", "/">>
                          \o ServiceName(d) \o <<"/">> \o Address(d)
           /\ Len(Split(DropFirst(k, Len(servicesKey)))) = 2
           /\ store[k].value = <<>>
    /\ \A h \in Handles : \A d \in DescsOf(h) :
           (Registered(h, d) /\ Cardinality(Granted) = 1 /\ ~anyEnded)
           => DOMAIN store = {KeyOf(d)}

\* C23 witness: a single Register has returned on the empty store and its key
\* is the only one.
C23_Witness ==
    /\ Registered("H2", "E4")
    /\ Cardinality(Granted) = 1
    /\ ~anyEnded
    /\ DOMAIN store = {<<"g", "s", "r", "/", "s", "e", "r", "v", "i", "c", "e",
                         "s", "/", "w", "/", "b">>}

\* The entry as it should be resolved: the scheme given or http://, the host,
\* the port given or the default port.
Resolved(en) ==
    (IF en.scheme = <<>> THEN Http ELSE en.scheme)
        \o en.host
        \o (IF en.port = <<>> THEN DefaultPort ELSE en.port)

\* C24: the resolved endpoint list has one entry per entry of
\* GSR_ETCD_ENDPOINTS, at the same position: the entry with http:// prepended
\* if it has no scheme and :2379 appended if and only if it has no port.
C24_EndpointsNormalised ==
    query.fn = "etcdEndpoints" =>
        /\ Len(answer) = Len(query.entries)
        /\ \A i \in 1..Len(answer) : answer[i] = Resolved(query.entries[i])

\* C25: for every value of GSR_KEY_PREFIX the resolved prefix ends in exactly
\* one '/', and resolving the resolved prefix returns it unchanged.
C25_PrefixEndsInOneSlash ==
    query.fn = "keyPrefix" =>
        LET p == answer.once
        IN  /\ Len(p) >= 1
            /\ p[Len(p)] = "/"
            /\ Len(p) >= 2 => p[Len(p) - 1] # "/"
            /\ answer.twice = p

\* C25 witness: a value with two trailing '/' was resolved.
C25_Witness ==
    /\ query = [fn |-> "keyPrefix", val |-> <<"g", "/", "/">>]
    /\ answer.once = <<"g", "/">>

\* The texts of the model that are integers, with their values, and those
\* that are booleans.
IntTexts ==
    {<<<<"4", "2">>, 42>>, <<<<"-", "3">>, 0 - 3>>, <<<<"+", "5">>, 5>>,
     <<<<"0">>, 0>>, <<<<"1">>, 1>>}

BoolTexts ==
    {<<<<"t", "r", "u", "e">>, TRUE>>, <<<<"t">>, TRUE>>, <<<<"1">>, TRUE>>,
     <<<<"f", "a", "l", "s", "e">>, FALSE>>, <<<<"0">>, FALSE>>}

\* C26: EnvOrDefaultStr, EnvOrDefaultInt and EnvOrDefaultBool return the
\* default for a variable that is unset or empty or (Int, Bool) whose value
\* does not parse, and the (parsed) value otherwise.
C26_EnvOrDefault ==
    /\ query.fn = "EnvOrDefaultStr" =>
           answer = (IF query.val = <<>> THEN query.def ELSE query.val)
    /\ query.fn = "EnvOrDefaultInt" =>
           IF \E p \in IntTexts : p[1] = query.val
           THEN \E p \in IntTexts : p[1] = query.val /\ answer = p[2]
           ELSE answer = query.def
    /\ query.fn = "EnvOrDefaultBool" =>
           IF \E p \in BoolTexts : p[1] = query.val
           THEN \E p \in BoolTexts : p[1] = query.val /\ answer = p[2]
           ELSE answer = query.def

\* C26 witness: EnvOrDefaultInt has returned its default for a value that
\* starts with a digit and does not parse.
C26_Witness ==
    /\ query = [fn |-> "EnvOrDefaultInt", val |-> <<"4", "x">>, def |-> 84]
    /\ answer = 84

C28_RegisterRestartsExpired ==
    [][\A h \in Handles :
          LET d == arg[h]
              l == epLease[h][d]
          IN  (/\ RegisterOk(h)
               /\ atCall[h] = "expired"
               /\ LeaseLive(leases, l)
               /\ KeyOf(d) \in DOMAIN store => store[KeyOf(d)].lease = l) =>
                  /\ KeyOf(d) \in DOMAIN store'
                  /\ store'[KeyOf(d)].lease = l
                  /\ heartbeats'[h][d] = l
                  /\ leases'[l].st = "kept"
                  /\ Returns(store', Pair(d))]_vars

\* The lease of the Register call in flight on handle h.
CallLease(h) == epLease[h][arg[h]]

\* C29: the steps of Register are ordered. While a call is before the return
\* of its put step, its lease has been granted to it, is not renewed and
\* holds no key; a key is bound only by the put step of a call, to the lease
\* granted to that call; the renewal of a lease starts only in the step after
\* the put step of the call it was granted to.
C29_GrantPutKeepAlive ==
    [][/\ \A h \in Handles :
             (hstate'[h] = "up" /\ pc'[h] \in {"read", "txn"}) =>
                 LET l == epLease'[h][arg'[h]]
                 IN  /\ l # NoLease
                     /\ leases'[l].st \in {"granted", "gone"}
                     /\ leases'[l].owner = h
                     /\ leases'[l].ep = Pair(arg'[h])
                     /\ \A k \in DOMAIN store' : store'[k].lease # l
       /\ \A k \in DOMAIN store' :
             (k \notin DOMAIN store \/ store[k] # store'[k]) =>
                 \E h \in Handles :
                     /\ pc[h] = "txn" /\ pc'[h] = "ka"
                     /\ k = KeyOf(arg[h])
                     /\ store'[k].lease = CallLease(h)
                     /\ leases[CallLease(h)].st = "granted"
       /\ \A l \in LeaseIds :
             (leases[l].st # "kept" /\ leases'[l].st = "kept") =>
                 \E h \in Handles :
                     /\ pc[h] = "ka" /\ pc'[h] = "idle"
                     /\ l = CallLease(h)]_vars

\* C29 witness: the put of a call has committed under the lease granted to
\* the call and the keepalive of that lease is not open yet.
C29_Witness ==
    \E h \in Handles :
        /\ pc[h] = "ka"
        /\ KeyOf(arg[h]) \in DOMAIN store
        /\ store[KeyOf(arg[h])].lease = CallLease(h)
        /\ leases[CallLease(h)].st = "granted"

\* C30: every request a public call waits on carries a context with the
\* per-request deadline, and every public call returns, also when the store
\* never answers.
C30_CallsReturn ==
    /\ [](\A i \in 1..(IF query.fn = "call" THEN Len(query.issued) ELSE 0) :
              query.issued[i].ctx = requestCtx)
    /\ (query.fn = "call") ~> (query.fn = "call" /\ query.at = "done")

\* C31: the accesses of concurrent Register and Unregister calls to the
\* heartbeat map of a handle exclude each other, and the map holds every
\* descriptor whose Register returned and that was not unregistered since.
C31_MapMutualExclusion ==
    query.fn = "tasks" =>
        /\ Cardinality({t \in Tasks : query.pos[t] = "inmap"}) <= 1
        /\ ~query.fatal
        /\ query.held \subseteq
               query.heartbeats \cup {query.of[t] : t \in Tasks}

\* This step is an Unregister on handle h that found its descriptor in the
\* heartbeat map.
UnregisterBy(h) ==
    /\ hstate[h] = "up" /\ hstate' = hstate
    /\ pc[h] = "idle" /\ pc' = pc
    /\ DOMAIN heartbeats'[h] # DOMAIN heartbeats[h]
    /\ DOMAIN heartbeats'[h] \subseteq DOMAIN heartbeats[h]

\* C32: an Unregister by a handle ends only leases granted to that handle and
\* removes only keys bound to such leases.
C32_UnregisterOwnLeaseOnly ==
    [][\A h \in Handles :
          UnregisterBy(h) =>
              /\ \A l \in LeaseIds :
                     leases'[l] # leases[l] => leases[l].owner = h
              /\ \A k \in DOMAIN store :
                     (k \notin DOMAIN store' \/ store'[k] # store[k]) =>
                         leases[store[k].lease].owner = h]_vars

\* C32 witness: handle H1 has unregistered an endpoint, its lease is revoked,
\* and a key bound to a lease of handle H2 is still in the store.
C32_Witness ==
    /\ last = Returned("Unregister", "ok")
    /\ heartbeats["H1"] = <<>>
    /\ \E l \in LeaseIds : leases[l].owner = "H1" /\ leases[l].st = "gone"
    /\ \A l \in LeaseIds : leases[l].owner = "H2" => leases[l].st = "kept"
    /\ \E k \in DOMAIN store : leases[store[k].lease].owner = "H2"

\* This step is the watch task processing one event.
EventProcessed ==
    /\ query.fn = "watch"
    /\ query'.fn = "watch"
    /\ Len(query'.events) < Len(query.events)

\* C33: the processing of a put or delete event by the watch task leaves the
\* heartbeat map, the configuration and the client of the handle as they
\* were, issues no request to the store and leaves the process running; the
\* result of an Endpoints call is the parse of the store at that call.
C33_EventsChangeNothing ==
    [][/\ EventProcessed =>
              /\ query'.handle = query.handle
              /\ query'.requests = query.requests
              /\ query'.keys = query.keys
              /\ query'.process = query.process
       /\ (query'.fn = "watch" /\ answer' # answer /\ answer'.call = "Endpoints"
               /\ ~answer'.panic) =>
              answer'.result =
                  EndpointsOf(KeyspaceOf(query'.keys), answer'.service, TRUE)]_vars

\* C34: once the watch stream has closed, the watch task drains its channel
\* and ends, without stopping the process; the stream is never opened again
\* and the task issues no request; while the process runs, so do its Register
\* and Endpoints calls.
C34_ClosedStreamEndsTask ==
    /\ (query.fn = "watch" /\ query.stream = "closed")
           ~> (query.fn = "watch" /\ (query.task = "ended" \/ query.process # "up"))
    /\ [][(query.fn = "watch" /\ query.stream = "closed") =>
              /\ query'.stream = "closed"
              /\ query'.requests = query.requests
              /\ query.task = "ended" => query'.task = "ended"
              /\ (EventProcessed \/ query'.task # query.task) =>
                     /\ query'.task \in {"running", "ended"}
                     /\ query'.process = query.process]_vars

\* C39: no key read from the services subtree makes the watch task or
\* Endpoints fail with an index out of range.
C39_KeyParsingNeverPanics ==
    query.fn = "watch" => query.process = "up" /\ query.task # "panic"

\* The list holds the address.
Holds(eps, addr) == \E x \in 1..Len(eps) : eps[x] = addr

\* C35: after the put event of an endpoint another handle registered has
\* been processed, Endpoints of its service holds the endpoint and every
\* endpoint it held before, whatever the map held before the event.
C35_PutEventReachesCache ==
    [][(/\ query.fn = "cache"
        /\ query'.fn = "cache"
        /\ Len(query'.events) < Len(query.events)
        /\ query'.handled[1] = "PUT") =>
           LET s == query'.handled[2]
               a == query'.handled[3]
           IN  /\ Holds(cachedEndpoints(query'.endpoints, s), a)
               /\ \A b \in {AddrA, AddrB} :
                      Holds(cachedEndpoints(query.endpoints, s), b) =>
                          Holds(cachedEndpoints(query'.endpoints, s), b)]_vars

\* C36: after a delete event for (s, a) has been processed, Endpoints(s) does
\* not hold a and holds every other endpoint it held before; s has left the
\* map when a was its last endpoint.
C36_DeleteEventLeavesCache ==
    [][(/\ query.fn = "cache"
        /\ query'.fn = "cache"
        /\ Len(query'.events) < Len(query.events)
        /\ query'.handled[1] = "DELETE") =>
           LET s == query'.handled[2]
               a == query'.handled[3]
               was == cachedEndpoints(query.endpoints, s)
               is  == cachedEndpoints(query'.endpoints, s)
           IN  /\ ~Holds(is, a)
               /\ \A b \in {AddrA, AddrB} \ {a} : Holds(was, b) => Holds(is, b)
               /\ (\A x \in 1..Len(was) : was[x] = a) =>
                      s \notin DOMAIN query'.endpoints]_vars

\* This step is an attempt of connect whose validation read was made.
ValidationRead ==
    /\ query.fn = "connect"
    /\ query'.fn = "connect"
    /\ query'.ticks # query.ticks
    /\ query'.client = Connected

\* C38: the validation read of connect is a range read of the services key
\* of the configured prefix; Canceled or DeadlineExceeded from it leaves
\* connect in its backoff loop, and any other error of it ends connect, which
\* returns that error to its caller.
C38_ValidationRead ==
    [][ValidationRead =>
           /\ query'.readKey = servicesKey
           /\ (query'.readErr # NoErr
                   /\ query'.readErr.type \in {"Canceled", "DeadlineExceeded"}) =>
                  (query'.at = "loop" /\ query'.err = query'.readErr)
           /\ (query'.readErr # NoErr
                   /\ query'.readErr.type = "other") =>
                  (query'.at = "ret" /\ query'.err = query'.readErr)]_vars

\* C40: with UseTLS the configuration of the etcd client that EtcdConfig
\* builds carries a TLS configuration, whatever the paths and the files are.
C40_TLSNeverDropped ==
    (query.fn = "EtcdConfig" /\ query.config.UseTLS) => answer.TLS.set

\* The configuration New read for the handle.
ConfigAtNew == configFromEnv(query.newEnv)

\* C37: the key prefix, the request timeout and the lease TTL of every
\* Register and Endpoints call on a handle are those of the environment New
\* was called in, whatever the environment is at the call.
C37_ConfigFixedAtNew ==
    (query.fn = "handle" /\ query.call.op # "none") =>
        /\ \E service \in Services :
              query.call.getKey =
                  serviceKeyWith(ConfigAtNew.EtcdKeyPrefix, service)
        /\ query.call.timeout = ConfigAtNew.EtcdRequestTimeoutSeconds
        /\ query.call.op = "Register" =>
              /\ \E d \in WatchDescs :
                    query.call.putKey =
                        endpointKeyWith(ConfigAtNew.EtcdKeyPrefix,
                                        ServiceName(d), Address(d))
              /\ query.call.ttl = ConfigAtNew.LeaseSeconds
        /\ query.config = ConfigAtNew

\* A Register after the prefix, the request timeout and the lease TTL were
\* all changed in the environment.
C37_Witness ==
    /\ query.fn = "handle"
    /\ query.call.op = "Register"
    /\ query.call.allChanged
    /\ configFromEnv(query.env).EtcdKeyPrefix # ConfigAtNew.EtcdKeyPrefix
    /\ configFromEnv(query.env).LeaseSeconds # ConfigAtNew.LeaseSeconds
    /\ configFromEnv(query.env).EtcdRequestTimeoutSeconds
          # ConfigAtNew.EtcdRequestTimeoutSeconds

====
